---- MODULE Spec2Model ----
(***************************************************************************)
(* A model of the in-memory graph + run engine (engine.py), the tools the  *)
(* application registers (tools.py, main.py) and the three service calls   *)
(* create_graph, run_graph and get_run.  The handlers of main.py are plain *)
(* functions that the server runs on worker threads, and the engine takes  *)
(* no lock: a run_graph call is modelled statement by statement, one       *)
(* action for each write to the run record, so that the other calls see    *)
(* the record as it is between two statements.                             *)
(*                                                                         *)
(* Python values are modelled by records of one shape, so that any two     *)
(* values can be compared:                                                 *)
(*     [t |-> tag, n |-> number, s |-> sequence]                           *)
(*   None        t = "none"                                                *)
(*   bool        t = "bool", n = 1 for True, 0 for False                   *)
(*   int         t = "int",  n = the number                                *)
(*   str         t = "str",  s = <<chars>>, chars the sequence of the code *)
(*               points of the string's characters (ord)                   *)
(*   list of str t = "list", s = the sequence of the items' code point     *)
(*               sequences                                                 *)
(* A dict is a function whose DOMAIN is its key set.  The keys of a state  *)
(* and of an edge rule are looked up and never taken apart: they are       *)
(* strings, and so is an edge rule's condition_key, which names a key of   *)
(* the state.  The strings the code takes apart or puts into a message     *)
(* (the node names, the str values of a state, the text of an exception)   *)
(* are sequences of code points.  An Optional[str] is the empty sequence   *)
(* (None) or a one-element sequence <<str>>.  Numbers are within the       *)
(* range of the model checker's integers.                                  *)
(***************************************************************************)
EXTENDS Integers, Sequences, FiniteSets, TLC

VARIABLES
    graphs,    \* GraphEngine.graphs : graph_id -> Graph
    runs,      \* GraphEngine.runs   : run_id -> RunRecord
    frames,    \* the run_graph calls under way: run_id -> their locals and position
    result     \* outcome of the last service call that returned or raised

vars == <<graphs, runs, frames, result>>

----------------------------------------------------------------------------
(* Python values *)

VNone == [t |-> "none", n |-> 0, s |-> <<>>]
VBool(b) == [t |-> "bool", n |-> IF b THEN 1 ELSE 0, s |-> <<>>]
VInt(k) == [t |-> "int", n |-> k, s |-> <<>>]
VStr(chars) == [t |-> "str", n |-> 0, s |-> <<chars>>]
VList(items) == [t |-> "list", n |-> 0, s |-> items]

\* bool(value)
Truthy(v) ==
    CASE v.t = "none" -> FALSE
      [] v.t = "bool" -> v.n # 0
      [] v.t = "int" -> v.n # 0
      [] v.t = "str" -> v.s[1] # <<>>
      [] v.t = "list" -> v.s # <<>>

\* Optional[str]
None == <<>>
Some(x) == <<x>>

\* truth value of an Optional[str]: None and "" are falsy
StrTruthy(o) == o # None /\ o[1] # <<>>

EmptyDict == <<>>

\* dict.get(key) with a default
DictGet(d, k, default) == IF k \in DOMAIN d THEN d[k] ELSE default

\* an update that keeps only the new dict
DictUpdate_replace(d, u) == u

\* dict.update(other)
DictUpdate(d, u) ==
    [k \in (DOMAIN d) \cup (DOMAIN u) |-> IF k \in DOMAIN u THEN u[k] ELSE d[k]]

\* d[key] = value
DictSet(d, k, v) == [x \in (DOMAIN d) \cup {k} |-> IF x = k THEN v ELSE d[x]]

Min(a, b) == IF a < b THEN a ELSE b
Max(a, b) == IF a > b THEN a ELSE b

----------------------------------------------------------------------------
(* The string literals of the code, spelled out in code points *)

Literals ==
    ("" :> <<>>)
    @@ ("'" :> <<39>>)
    @@ ("X" :> <<88>>)
    @@ ("x" :> <<120>>)
    @@ ("a c" :> <<97, 32, 99>>)
    @@ ("end" :> <<101, 110, 100>>)
    @@ ("int" :> <<105, 110, 116>>)
    @@ ("str" :> <<115, 116, 114>>)
    @@ ("bool" :> <<98, 111, 111, 108>>)
    @@ ("list" :> <<108, 105, 115, 116>>)
    @@ ("a b c" :> <<97, 32, 98, 32, 99>>)
    @@ ("Tool '" :> <<84, 111, 111, 108, 32, 39>>)
    @@ ("on_true" :> <<111, 110, 95, 116, 114, 117, 101>>)
    @@ ("NoneType" :> <<78, 111, 110, 101, 84, 121, 112, 101>>)
    @@ ("on_false" :> <<111, 110, 95, 102, 97, 108, 115, 101>>)
    @@ ("split_text" :> <<115, 112, 108, 105, 116, 95, 116, 101, 120, 116>>)
    @@ ("refine_summary" :>
            <<114, 101, 102, 105, 110, 101, 95, 115, 117, 109, 109, 97, 114, 121>>)
    @@ ("merge_summaries" :>
            <<109, 101, 114, 103, 101, 95, 115, 117, 109, 109, 97, 114, 105, 101, 115>>)
    @@ ("generate_summaries" :>
            <<103, 101, 110, 101, 114, 97, 116, 101, 95, 115, 117, 109, 109, 97, 114,
              105, 101, 115>>)
    @@ ("' is not registered" :>
            <<39, 32, 105, 115, 32, 110, 111, 116, 32, 114, 101, 103, 105, 115, 116,
              101, 114, 101, 100>>)
    @@ ("' object is not iterable" :>
            <<39, 32, 111, 98, 106, 101, 99, 116, 32, 105, 115, 32, 110, 111, 116, 32,
              105, 116, 101, 114, 97, 98, 108, 101>>)
    @@ ("can only join an iterable" :>
            <<99, 97, 110, 32, 111, 110, 108, 121, 32, 106, 111, 105, 110, 32, 97, 110,
              32, 105, 116, 101, 114, 97, 98, 108, 101>>)
    @@ ("range() arg 3 must not be zero" :>
            <<114, 97, 110, 103, 101, 40, 41, 32, 97, 114, 103, 32, 51, 32, 109, 117,
              115, 116, 32, 110, 111, 116, 32, 98, 101, 32, 122, 101, 114, 111>>)
    @@ ("' object has no attribute 'split'" :>
            <<39, 32, 111, 98, 106, 101, 99, 116, 32, 104, 97, 115, 32, 110, 111, 32,
              97, 116, 116, 114, 105, 98, 117, 116, 101, 32, 39, 115, 112, 108, 105,
              116, 39>>)
    @@ ("invalid literal for int() with base 10: " :>
            <<105, 110, 118, 97, 108, 105, 100, 32, 108, 105, 116, 101, 114, 97, 108,
              32, 102, 111, 114, 32, 105, 110, 116, 40, 41, 32, 119, 105, 116, 104, 32,
              98, 97, 115, 101, 32, 49, 48, 58, 32>>)
    @@ ("'<=' not supported between instances of 'int' and 'NoneType'" :>
            <<39, 60, 61, 39, 32, 110, 111, 116, 32, 115, 117, 112, 112, 111, 114, 116,
              101, 100, 32, 98, 101, 116, 119, 101, 101, 110, 32, 105, 110, 115, 116,
              97, 110, 99, 101, 115, 32, 111, 102, 32, 39, 105, 110, 116, 39, 32, 97,
              110, 100, 32, 39, 78, 111, 110, 101, 84, 121, 112, 101, 39>>)
    @@ (" digits; use sys.set_int_max_str_digits() to increase the limit" :>
            <<32, 100, 105, 103, 105, 116, 115, 59, 32, 117, 115, 101, 32, 115, 121,
              115, 46, 115, 101, 116, 95, 105, 110, 116, 95, 109, 97, 120, 95, 115,
              116, 114, 95, 100, 105, 103, 105, 116, 115, 40, 41, 32, 116, 111, 32,
              105, 110, 99, 114, 101, 97, 115, 101, 32, 116, 104, 101, 32, 108, 105,
              109, 105, 116>>)
    @@ ("slice indices must be integers or None or have an __index__ method" :>
            <<115, 108, 105, 99, 101, 32, 105, 110, 100, 105, 99, 101, 115, 32, 109,
              117, 115, 116, 32, 98, 101, 32, 105, 110, 116, 101, 103, 101, 114, 115,
              32, 111, 114, 32, 78, 111, 110, 101, 32, 111, 114, 32, 104, 97, 118, 101,
              32, 97, 110, 32, 95, 95, 105, 110, 100, 101, 120, 95, 95, 32, 109, 101,
              116, 104, 111, 100>>)
    @@ ("Exceeds the limit (4300 digits) for integer string conversion: value has " :>
            <<69, 120, 99, 101, 101, 100, 115, 32, 116, 104, 101, 32, 108, 105, 109,
              105, 116, 32, 40, 52, 51, 48, 48, 32, 100, 105, 103, 105, 116, 115, 41,
              32, 102, 111, 114, 32, 105, 110, 116, 101, 103, 101, 114, 32, 115, 116,
              114, 105, 110, 103, 32, 99, 111, 110, 118, 101, 114, 115, 105, 111, 110,
              58, 32, 118, 97, 108, 117, 101, 32, 104, 97, 115, 32>>)
    @@ ("int() argument must be a string, a bytes-like object or a real number, not '" :>
            <<105, 110, 116, 40, 41, 32, 97, 114, 103, 117, 109, 101, 110, 116, 32,
              109, 117, 115, 116, 32, 98, 101, 32, 97, 32, 115, 116, 114, 105, 110,
              103, 44, 32, 97, 32, 98, 121, 116, 101, 115, 45, 108, 105, 107, 101, 32,
              111, 98, 106, 101, 99, 116, 32, 111, 114, 32, 97, 32, 114, 101, 97, 108,
              32, 110, 117, 109, 98, 101, 114, 44, 32, 110, 111, 116, 32, 39>>)

\* the str that a string literal of the code writes
Str(literal) == Literals[literal]

----------------------------------------------------------------------------
(* str.split(), " ".join(...), slicing, int() and repr() *)

\* the characters str.isspace() holds for: \t, \n, \v, \f, \r, U+001C to
\* U+001F, the blank, U+0085, U+00A0, U+1680, U+2000 to U+200A, U+2028,
\* U+2029, U+202F, U+205F and U+3000
Whitespace ==
    (9..13) \cup (28..32) \cup {133, 160, 5760} \cup (8192..8202)
        \cup {8232, 8233, 8239, 8287, 12288}

\* the members of the set S of numbers in ascending order
Sorted(S) ==
    [k \in 1..Cardinality(S) |-> CHOOSE x \in S : Cardinality({y \in S : y < x}) = k - 1]

\* text.split(): the list of words, the maximal runs of characters that are
\* not whitespace, each a sequence of code points
Split(chars) ==
    LET n == Len(chars)
        inword(i) == chars[i] \notin Whitespace
        starts == Sorted({i \in 1..n : inword(i) /\ (i = 1 \/ ~inword(i - 1))})
        end(a) == CHOOSE i \in a..n : /\ \A j \in a..i : inword(j)
                                      /\ i = n \/ ~inword(i + 1)
    IN  [k \in 1..Len(starts) |-> SubSeq(chars, starts[k], end(starts[k]))]

RECURSIVE Concat(_)
\* the sequences of parts one after the other
Concat(parts) ==
    IF parts = <<>> THEN <<>>
    ELSE IF Len(parts) = 1 THEN parts[1]
    ELSE LET half == Len(parts) \div 2
         IN  Concat(SubSeq(parts, 1, half)) \o Concat(SubSeq(parts, half + 1, Len(parts)))

\* " ".join(items), items a sequence of code point sequences
Join(items) ==
    Concat([i \in 1..(2 * Len(items) - 1) |->
               IF i % 2 = 1 THEN items[(i + 1) \div 2] ELSE <<32>>])

\* seq[:n] for an int n (a negative n counts from the end)
SliceTo(seq, n) ==
    IF n >= 0 THEN SubSeq(seq, 1, Min(n, Len(seq)))
    ELSE SubSeq(seq, 1, Max(Len(seq) + n, 0))

\* seq[i : i + n] for i >= 0 (0-based), n >= 1
SliceFrom(seq, i, n) == SubSeq(seq, i + 1, Min(i + n, Len(seq)))

\* the characters with a decimal digit value (Unicode category Nd), in runs
\* of ten, 0 to 9; the mathematical digits are five such runs in a row
DecimalRanges ==
  <<<<48, 57>>, <<1632, 1641>>, <<1776, 1785>>, <<1984, 1993>>, <<2406, 2415>>, <<2534, 2543>>, <<2662, 2671>>,
    <<2790, 2799>>, <<2918, 2927>>, <<3046, 3055>>, <<3174, 3183>>, <<3302, 3311>>, <<3430, 3439>>, <<3558, 3567>>,
    <<3664, 3673>>, <<3792, 3801>>, <<3872, 3881>>, <<4160, 4169>>, <<4240, 4249>>, <<6112, 6121>>, <<6160, 6169>>,
    <<6470, 6479>>, <<6608, 6617>>, <<6784, 6793>>, <<6800, 6809>>, <<6992, 7001>>, <<7088, 7097>>, <<7232, 7241>>,
    <<7248, 7257>>, <<42528, 42537>>, <<43216, 43225>>, <<43264, 43273>>, <<43472, 43481>>, <<43504, 43513>>, <<43600, 43609>>,
    <<44016, 44025>>, <<65296, 65305>>, <<66720, 66729>>, <<68912, 68921>>, <<69734, 69743>>, <<69872, 69881>>, <<69942, 69951>>,
    <<70096, 70105>>, <<70384, 70393>>, <<70736, 70745>>, <<70864, 70873>>, <<71248, 71257>>, <<71360, 71369>>, <<71472, 71481>>,
    <<71904, 71913>>, <<72016, 72025>>, <<72784, 72793>>, <<73040, 73049>>, <<73120, 73129>>, <<92768, 92777>>, <<92864, 92873>>,
    <<93008, 93017>>, <<120782, 120831>>, <<123200, 123209>>, <<123632, 123641>>, <<125264, 125273>>, <<130032, 130041>>>>

\* the characters str.isprintable() holds for
PrintableRanges ==
  <<<<32, 126>>, <<161, 172>>, <<174, 887>>, <<890, 895>>, <<900, 906>>, <<908, 908>>, <<910, 929>>,
    <<931, 1327>>, <<1329, 1366>>, <<1369, 1418>>, <<1421, 1423>>, <<1425, 1479>>, <<1488, 1514>>, <<1519, 1524>>,
    <<1542, 1563>>, <<1565, 1756>>, <<1758, 1805>>, <<1808, 1866>>, <<1869, 1969>>, <<1984, 2042>>, <<2045, 2093>>,
    <<2096, 2110>>, <<2112, 2139>>, <<2142, 2142>>, <<2144, 2154>>, <<2160, 2190>>, <<2200, 2273>>, <<2275, 2435>>,
    <<2437, 2444>>, <<2447, 2448>>, <<2451, 2472>>, <<2474, 2480>>, <<2482, 2482>>, <<2486, 2489>>, <<2492, 2500>>,
    <<2503, 2504>>, <<2507, 2510>>, <<2519, 2519>>, <<2524, 2525>>, <<2527, 2531>>, <<2534, 2558>>, <<2561, 2563>>,
    <<2565, 2570>>, <<2575, 2576>>, <<2579, 2600>>, <<2602, 2608>>, <<2610, 2611>>, <<2613, 2614>>, <<2616, 2617>>,
    <<2620, 2620>>, <<2622, 2626>>, <<2631, 2632>>, <<2635, 2637>>, <<2641, 2641>>, <<2649, 2652>>, <<2654, 2654>>,
    <<2662, 2678>>, <<2689, 2691>>, <<2693, 2701>>, <<2703, 2705>>, <<2707, 2728>>, <<2730, 2736>>, <<2738, 2739>>,
    <<2741, 2745>>, <<2748, 2757>>, <<2759, 2761>>, <<2763, 2765>>, <<2768, 2768>>, <<2784, 2787>>, <<2790, 2801>>,
    <<2809, 2815>>, <<2817, 2819>>, <<2821, 2828>>, <<2831, 2832>>, <<2835, 2856>>, <<2858, 2864>>, <<2866, 2867>>,
    <<2869, 2873>>, <<2876, 2884>>, <<2887, 2888>>, <<2891, 2893>>, <<2901, 2903>>, <<2908, 2909>>, <<2911, 2915>>,
    <<2918, 2935>>, <<2946, 2947>>, <<2949, 2954>>, <<2958, 2960>>, <<2962, 2965>>, <<2969, 2970>>, <<2972, 2972>>,
    <<2974, 2975>>, <<2979, 2980>>, <<2984, 2986>>, <<2990, 3001>>, <<3006, 3010>>, <<3014, 3016>>, <<3018, 3021>>,
    <<3024, 3024>>, <<3031, 3031>>, <<3046, 3066>>, <<3072, 3084>>, <<3086, 3088>>, <<3090, 3112>>, <<3114, 3129>>,
    <<3132, 3140>>, <<3142, 3144>>, <<3146, 3149>>, <<3157, 3158>>, <<3160, 3162>>, <<3165, 3165>>, <<3168, 3171>>,
    <<3174, 3183>>, <<3191, 3212>>, <<3214, 3216>>, <<3218, 3240>>, <<3242, 3251>>, <<3253, 3257>>, <<3260, 3268>>,
    <<3270, 3272>>, <<3274, 3277>>, <<3285, 3286>>, <<3293, 3294>>, <<3296, 3299>>, <<3302, 3311>>, <<3313, 3314>>,
    <<3328, 3340>>, <<3342, 3344>>, <<3346, 3396>>, <<3398, 3400>>, <<3402, 3407>>, <<3412, 3427>>, <<3430, 3455>>,
    <<3457, 3459>>, <<3461, 3478>>, <<3482, 3505>>, <<3507, 3515>>, <<3517, 3517>>, <<3520, 3526>>, <<3530, 3530>>,
    <<3535, 3540>>, <<3542, 3542>>, <<3544, 3551>>, <<3558, 3567>>, <<3570, 3572>>, <<3585, 3642>>, <<3647, 3675>>,
    <<3713, 3714>>, <<3716, 3716>>, <<3718, 3722>>, <<3724, 3747>>, <<3749, 3749>>, <<3751, 3773>>, <<3776, 3780>>,
    <<3782, 3782>>, <<3784, 3789>>, <<3792, 3801>>, <<3804, 3807>>, <<3840, 3911>>, <<3913, 3948>>, <<3953, 3991>>,
    <<3993, 4028>>, <<4030, 4044>>, <<4046, 4058>>, <<4096, 4293>>, <<4295, 4295>>, <<4301, 4301>>, <<4304, 4680>>,
    <<4682, 4685>>, <<4688, 4694>>, <<4696, 4696>>, <<4698, 4701>>, <<4704, 4744>>, <<4746, 4749>>, <<4752, 4784>>,
    <<4786, 4789>>, <<4792, 4798>>, <<4800, 4800>>, <<4802, 4805>>, <<4808, 4822>>, <<4824, 4880>>, <<4882, 4885>>,
    <<4888, 4954>>, <<4957, 4988>>, <<4992, 5017>>, <<5024, 5109>>, <<5112, 5117>>, <<5120, 5759>>, <<5761, 5788>>,
    <<5792, 5880>>, <<5888, 5909>>, <<5919, 5942>>, <<5952, 5971>>, <<5984, 5996>>, <<5998, 6000>>, <<6002, 6003>>,
    <<6016, 6109>>, <<6112, 6121>>, <<6128, 6137>>, <<6144, 6157>>, <<6159, 6169>>, <<6176, 6264>>, <<6272, 6314>>,
    <<6320, 6389>>, <<6400, 6430>>, <<6432, 6443>>, <<6448, 6459>>, <<6464, 6464>>, <<6468, 6509>>, <<6512, 6516>>,
    <<6528, 6571>>, <<6576, 6601>>, <<6608, 6618>>, <<6622, 6683>>, <<6686, 6750>>, <<6752, 6780>>, <<6783, 6793>>,
    <<6800, 6809>>, <<6816, 6829>>, <<6832, 6862>>, <<6912, 6988>>, <<6992, 7038>>, <<7040, 7155>>, <<7164, 7223>>,
    <<7227, 7241>>, <<7245, 7304>>, <<7312, 7354>>, <<7357, 7367>>, <<7376, 7418>>, <<7424, 7957>>, <<7960, 7965>>,
    <<7968, 8005>>, <<8008, 8013>>, <<8016, 8023>>, <<8025, 8025>>, <<8027, 8027>>, <<8029, 8029>>, <<8031, 8061>>,
    <<8064, 8116>>, <<8118, 8132>>, <<8134, 8147>>, <<8150, 8155>>, <<8157, 8175>>, <<8178, 8180>>, <<8182, 8190>>,
    <<8208, 8231>>, <<8240, 8286>>, <<8304, 8305>>, <<8308, 8334>>, <<8336, 8348>>, <<8352, 8384>>, <<8400, 8432>>,
    <<8448, 8587>>, <<8592, 9254>>, <<9280, 9290>>, <<9312, 11123>>, <<11126, 11157>>, <<11159, 11507>>, <<11513, 11557>>,
    <<11559, 11559>>, <<11565, 11565>>, <<11568, 11623>>, <<11631, 11632>>, <<11647, 11670>>, <<11680, 11686>>, <<11688, 11694>>,
    <<11696, 11702>>, <<11704, 11710>>, <<11712, 11718>>, <<11720, 11726>>, <<11728, 11734>>, <<11736, 11742>>, <<11744, 11869>>,
    <<11904, 11929>>, <<11931, 12019>>, <<12032, 12245>>, <<12272, 12283>>, <<12289, 12351>>, <<12353, 12438>>, <<12441, 12543>>,
    <<12549, 12591>>, <<12593, 12686>>, <<12688, 12771>>, <<12784, 12830>>, <<12832, 42124>>, <<42128, 42182>>, <<42192, 42539>>,
    <<42560, 42743>>, <<42752, 42954>>, <<42960, 42961>>, <<42963, 42963>>, <<42965, 42969>>, <<42994, 43052>>, <<43056, 43065>>,
    <<43072, 43127>>, <<43136, 43205>>, <<43214, 43225>>, <<43232, 43347>>, <<43359, 43388>>, <<43392, 43469>>, <<43471, 43481>>,
    <<43486, 43518>>, <<43520, 43574>>, <<43584, 43597>>, <<43600, 43609>>, <<43612, 43714>>, <<43739, 43766>>, <<43777, 43782>>,
    <<43785, 43790>>, <<43793, 43798>>, <<43808, 43814>>, <<43816, 43822>>, <<43824, 43883>>, <<43888, 44013>>, <<44016, 44025>>,
    <<44032, 55203>>, <<55216, 55238>>, <<55243, 55291>>, <<63744, 64109>>, <<64112, 64217>>, <<64256, 64262>>, <<64275, 64279>>,
    <<64285, 64310>>, <<64312, 64316>>, <<64318, 64318>>, <<64320, 64321>>, <<64323, 64324>>, <<64326, 64450>>, <<64467, 64911>>,
    <<64914, 64967>>, <<64975, 64975>>, <<65008, 65049>>, <<65056, 65106>>, <<65108, 65126>>, <<65128, 65131>>, <<65136, 65140>>,
    <<65142, 65276>>, <<65281, 65470>>, <<65474, 65479>>, <<65482, 65487>>, <<65490, 65495>>, <<65498, 65500>>, <<65504, 65510>>,
    <<65512, 65518>>, <<65532, 65533>>, <<65536, 65547>>, <<65549, 65574>>, <<65576, 65594>>, <<65596, 65597>>, <<65599, 65613>>,
    <<65616, 65629>>, <<65664, 65786>>, <<65792, 65794>>, <<65799, 65843>>, <<65847, 65934>>, <<65936, 65948>>, <<65952, 65952>>,
    <<66000, 66045>>, <<66176, 66204>>, <<66208, 66256>>, <<66272, 66299>>, <<66304, 66339>>, <<66349, 66378>>, <<66384, 66426>>,
    <<66432, 66461>>, <<66463, 66499>>, <<66504, 66517>>, <<66560, 66717>>, <<66720, 66729>>, <<66736, 66771>>, <<66776, 66811>>,
    <<66816, 66855>>, <<66864, 66915>>, <<66927, 66938>>, <<66940, 66954>>, <<66956, 66962>>, <<66964, 66965>>, <<66967, 66977>>,
    <<66979, 66993>>, <<66995, 67001>>, <<67003, 67004>>, <<67072, 67382>>, <<67392, 67413>>, <<67424, 67431>>, <<67456, 67461>>,
    <<67463, 67504>>, <<67506, 67514>>, <<67584, 67589>>, <<67592, 67592>>, <<67594, 67637>>, <<67639, 67640>>, <<67644, 67644>>,
    <<67647, 67669>>, <<67671, 67742>>, <<67751, 67759>>, <<67808, 67826>>, <<67828, 67829>>, <<67835, 67867>>, <<67871, 67897>>,
    <<67903, 67903>>, <<67968, 68023>>, <<68028, 68047>>, <<68050, 68099>>, <<68101, 68102>>, <<68108, 68115>>, <<68117, 68119>>,
    <<68121, 68149>>, <<68152, 68154>>, <<68159, 68168>>, <<68176, 68184>>, <<68192, 68255>>, <<68288, 68326>>, <<68331, 68342>>,
    <<68352, 68405>>, <<68409, 68437>>, <<68440, 68466>>, <<68472, 68497>>, <<68505, 68508>>, <<68521, 68527>>, <<68608, 68680>>,
    <<68736, 68786>>, <<68800, 68850>>, <<68858, 68903>>, <<68912, 68921>>, <<69216, 69246>>, <<69248, 69289>>, <<69291, 69293>>,
    <<69296, 69297>>, <<69376, 69415>>, <<69424, 69465>>, <<69488, 69513>>, <<69552, 69579>>, <<69600, 69622>>, <<69632, 69709>>,
    <<69714, 69749>>, <<69759, 69820>>, <<69822, 69826>>, <<69840, 69864>>, <<69872, 69881>>, <<69888, 69940>>, <<69942, 69959>>,
    <<69968, 70006>>, <<70016, 70111>>, <<70113, 70132>>, <<70144, 70161>>, <<70163, 70206>>, <<70272, 70278>>, <<70280, 70280>>,
    <<70282, 70285>>, <<70287, 70301>>, <<70303, 70313>>, <<70320, 70378>>, <<70384, 70393>>, <<70400, 70403>>, <<70405, 70412>>,
    <<70415, 70416>>, <<70419, 70440>>, <<70442, 70448>>, <<70450, 70451>>, <<70453, 70457>>, <<70459, 70468>>, <<70471, 70472>>,
    <<70475, 70477>>, <<70480, 70480>>, <<70487, 70487>>, <<70493, 70499>>, <<70502, 70508>>, <<70512, 70516>>, <<70656, 70747>>,
    <<70749, 70753>>, <<70784, 70855>>, <<70864, 70873>>, <<71040, 71093>>, <<71096, 71133>>, <<71168, 71236>>, <<71248, 71257>>,
    <<71264, 71276>>, <<71296, 71353>>, <<71360, 71369>>, <<71424, 71450>>, <<71453, 71467>>, <<71472, 71494>>, <<71680, 71739>>,
    <<71840, 71922>>, <<71935, 71942>>, <<71945, 71945>>, <<71948, 71955>>, <<71957, 71958>>, <<71960, 71989>>, <<71991, 71992>>,
    <<71995, 72006>>, <<72016, 72025>>, <<72096, 72103>>, <<72106, 72151>>, <<72154, 72164>>, <<72192, 72263>>, <<72272, 72354>>,
    <<72368, 72440>>, <<72704, 72712>>, <<72714, 72758>>, <<72760, 72773>>, <<72784, 72812>>, <<72816, 72847>>, <<72850, 72871>>,
    <<72873, 72886>>, <<72960, 72966>>, <<72968, 72969>>, <<72971, 73014>>, <<73018, 73018>>, <<73020, 73021>>, <<73023, 73031>>,
    <<73040, 73049>>, <<73056, 73061>>, <<73063, 73064>>, <<73066, 73102>>, <<73104, 73105>>, <<73107, 73112>>, <<73120, 73129>>,
    <<73440, 73464>>, <<73648, 73648>>, <<73664, 73713>>, <<73727, 74649>>, <<74752, 74862>>, <<74864, 74868>>, <<74880, 75075>>,
    <<77712, 77810>>, <<77824, 78894>>, <<82944, 83526>>, <<92160, 92728>>, <<92736, 92766>>, <<92768, 92777>>, <<92782, 92862>>,
    <<92864, 92873>>, <<92880, 92909>>, <<92912, 92917>>, <<92928, 92997>>, <<93008, 93017>>, <<93019, 93025>>, <<93027, 93047>>,
    <<93053, 93071>>, <<93760, 93850>>, <<93952, 94026>>, <<94031, 94087>>, <<94095, 94111>>, <<94176, 94180>>, <<94192, 94193>>,
    <<94208, 100343>>, <<100352, 101589>>, <<101632, 101640>>, <<110576, 110579>>, <<110581, 110587>>, <<110589, 110590>>, <<110592, 110882>>,
    <<110928, 110930>>, <<110948, 110951>>, <<110960, 111355>>, <<113664, 113770>>, <<113776, 113788>>, <<113792, 113800>>, <<113808, 113817>>,
    <<113820, 113823>>, <<118528, 118573>>, <<118576, 118598>>, <<118608, 118723>>, <<118784, 119029>>, <<119040, 119078>>, <<119081, 119154>>,
    <<119163, 119274>>, <<119296, 119365>>, <<119520, 119539>>, <<119552, 119638>>, <<119648, 119672>>, <<119808, 119892>>, <<119894, 119964>>,
    <<119966, 119967>>, <<119970, 119970>>, <<119973, 119974>>, <<119977, 119980>>, <<119982, 119993>>, <<119995, 119995>>, <<119997, 120003>>,
    <<120005, 120069>>, <<120071, 120074>>, <<120077, 120084>>, <<120086, 120092>>, <<120094, 120121>>, <<120123, 120126>>, <<120128, 120132>>,
    <<120134, 120134>>, <<120138, 120144>>, <<120146, 120485>>, <<120488, 120779>>, <<120782, 121483>>, <<121499, 121503>>, <<121505, 121519>>,
    <<122624, 122654>>, <<122880, 122886>>, <<122888, 122904>>, <<122907, 122913>>, <<122915, 122916>>, <<122918, 122922>>, <<123136, 123180>>,
    <<123184, 123197>>, <<123200, 123209>>, <<123214, 123215>>, <<123536, 123566>>, <<123584, 123641>>, <<123647, 123647>>, <<124896, 124902>>,
    <<124904, 124907>>, <<124909, 124910>>, <<124912, 124926>>, <<124928, 125124>>, <<125127, 125142>>, <<125184, 125259>>, <<125264, 125273>>,
    <<125278, 125279>>, <<126065, 126132>>, <<126209, 126269>>, <<126464, 126467>>, <<126469, 126495>>, <<126497, 126498>>, <<126500, 126500>>,
    <<126503, 126503>>, <<126505, 126514>>, <<126516, 126519>>, <<126521, 126521>>, <<126523, 126523>>, <<126530, 126530>>, <<126535, 126535>>,
    <<126537, 126537>>, <<126539, 126539>>, <<126541, 126543>>, <<126545, 126546>>, <<126548, 126548>>, <<126551, 126551>>, <<126553, 126553>>,
    <<126555, 126555>>, <<126557, 126557>>, <<126559, 126559>>, <<126561, 126562>>, <<126564, 126564>>, <<126567, 126570>>, <<126572, 126578>>,
    <<126580, 126583>>, <<126585, 126588>>, <<126590, 126590>>, <<126592, 126601>>, <<126603, 126619>>, <<126625, 126627>>, <<126629, 126633>>,
    <<126635, 126651>>, <<126704, 126705>>, <<126976, 127019>>, <<127024, 127123>>, <<127136, 127150>>, <<127153, 127167>>, <<127169, 127183>>,
    <<127185, 127221>>, <<127232, 127405>>, <<127462, 127490>>, <<127504, 127547>>, <<127552, 127560>>, <<127568, 127569>>, <<127584, 127589>>,
    <<127744, 128727>>, <<128733, 128748>>, <<128752, 128764>>, <<128768, 128883>>, <<128896, 128984>>, <<128992, 129003>>, <<129008, 129008>>,
    <<129024, 129035>>, <<129040, 129095>>, <<129104, 129113>>, <<129120, 129159>>, <<129168, 129197>>, <<129200, 129201>>, <<129280, 129619>>,
    <<129632, 129645>>, <<129648, 129652>>, <<129656, 129660>>, <<129664, 129670>>, <<129680, 129708>>, <<129712, 129722>>, <<129728, 129733>>,
    <<129744, 129753>>, <<129760, 129767>>, <<129776, 129782>>, <<129792, 129938>>, <<129940, 129994>>, <<130032, 130041>>, <<131072, 173791>>,
    <<173824, 177976>>, <<177984, 178205>>, <<178208, 183969>>, <<183984, 191456>>, <<194560, 195101>>, <<196608, 201546>>, <<917760, 917999>>>>

InRanges(c, ranges) == \E i \in 1..Len(ranges) : ranges[i][1] <= c /\ c <= ranges[i][2]

IsDecimal(c) == InRanges(c, DecimalRanges)
IsPrintable(c) == InRanges(c, PrintableRanges)

\* the digit value of the decimal character c: its place in its run of ten
DigitIn(c, ranges) ==
    (c - ranges[CHOOSE i \in 1..Len(ranges) : ranges[i][1] <= c /\ c <= ranges[i][2]][1]) % 10
DigitVal(c) == DigitIn(c, DecimalRanges)

RECURSIVE Hex(_, _)
\* the last `width` digits of n in base 16, in lower case
Hex(n, width) ==
    IF width = 0 THEN <<>>
    ELSE Append(Hex(n \div 16, width - 1),
                IF n % 16 < 10 THEN 48 + (n % 16) ELSE 87 + (n % 16))

RECURSIVE Decimal(_)
\* str(n) for an int n >= 0
Decimal(n) == IF n < 10 THEN <<48 + n>> ELSE Append(Decimal(n \div 10), 48 + (n % 10))

\* how repr() writes the character c inside the quotes q: the backslash and
\* the quote escaped, \t, \n and \r by those names, every other character
\* that is not printable as \xhh, \uhhhh or \Uhhhhhhhh
ReprChar(c, q) ==
    CASE c = 92 -> <<92, 92>>
      [] c = q -> <<92, q>>
      [] c = 9 -> <<92, 116>>
      [] c = 10 -> <<92, 110>>
      [] c = 13 -> <<92, 114>>
      [] OTHER -> IF IsPrintable(c) THEN <<c>>
                  ELSE IF c < 256 THEN <<92, 120>> \o Hex(c, 2)
                  ELSE IF c < 65536 THEN <<92, 117>> \o Hex(c, 4)
                  ELSE <<92, 85>> \o Hex(c, 8)

\* repr(value) of a str: in double quotes when the string holds ' and no ",
\* in single quotes otherwise
Repr(chars) ==
    LET has(c) == \E i \in 1..Len(chars) : chars[i] = c
        q == IF has(39) /\ ~has(34) THEN 34 ELSE 39
    IN  <<q>> \o Concat([i \in 1..Len(chars) |-> ReprChar(chars[i], q)]) \o <<q>>

\* type(value).__name__
TypeName(v) ==
    CASE v.t = "none" -> Str("NoneType")
      [] v.t = "bool" -> Str("bool")
      [] v.t = "int" -> Str("int")
      [] v.t = "str" -> Str("str")
      [] v.t = "list" -> Str("list")

\* the whitespace int() drops around a literal: that of str.isspace() without
\* U+001C to U+001F
IntSpace == Whitespace \ (28..31)

\* the least member of a set of numbers that is not empty
Least(S) == CHOOSE x \in S : \A y \in S : x <= y

\* chars without the IntSpace characters it starts with
LStrip(chars) ==
    SubSeq(chars,
           Least({i \in 1..Len(chars) : chars[i] \notin IntSpace} \cup {Len(chars) + 1}),
           Len(chars))

\* the digits and underscores chars starts with
DigitRun(chars) ==
    SubSeq(chars, 1,
           Least({i \in 1..Len(chars) : chars[i] # 95 /\ ~IsDecimal(chars[i])}
                     \cup {Len(chars) + 1}) - 1)

\* sys.get_int_max_str_digits()
MaxStrDigits == 4300

RECURSIVE DecimalAcc(_, _)
\* the number the digits of chars write, the underscores between them left out
DecimalAcc(chars, acc) ==
    IF chars = <<>> THEN acc
    ELSE IF Head(chars) = 95 THEN DecimalAcc(Tail(chars), acc)
    ELSE DecimalAcc(Tail(chars), 10 * acc + DigitVal(Head(chars)))

\* the number a run of digits and underscores writes; the zeros and
\* underscores it starts with add nothing
DecimalOf(run) ==
    DecimalAcc(SubSeq(run,
                      Least({i \in 1..Len(run) : run[i] # 95 /\ DigitVal(run[i]) # 0}
                                \cup {Len(run) + 1}),
                      Len(run)),
               0)

\* int() on the digits and underscores `run` of a literal, `rest` what
\* follows them and `digits` the number of digits in run: the run is looked
\* at first, then the number of its digits, then what follows it.  err is ""
\* where int() returns n, "literal" where it raises the ValueError of an
\* invalid literal and "limit" where it raises that of a literal of more
\* than MaxStrDigits digits.
IntDigits(negative, run, rest, digits) ==
    IF \/ run = <<>>
       \/ run[1] = 95 \/ run[Len(run)] = 95
       \/ \E i \in 1..(Len(run) - 1) : run[i] = 95 /\ run[i + 1] = 95
    THEN [err |-> "literal", n |-> 0, digits |-> digits]
    ELSE IF digits > MaxStrDigits THEN [err |-> "limit", n |-> 0, digits |-> digits]
    ELSE IF \E i \in 1..Len(rest) : rest[i] \notin IntSpace
    THEN [err |-> "literal", n |-> 0, digits |-> digits]
    ELSE [err |-> "", digits |-> digits,
          n |-> (IF negative THEN 0 - 1 ELSE 1) * DecimalOf(run)]

\* int() on a literal without its sign, `run` the digits and underscores it
\* starts with
IntRun(negative, unsigned, run) ==
    IntDigits(negative, run, SubSeq(unsigned, Len(run) + 1, Len(unsigned)),
              Cardinality({i \in 1..Len(run) : run[i] # 95}))

\* int() on a literal without the whitespace before it: one sign, + or -
IntSigned(body) ==
    IntRun(body # <<>> /\ body[1] = 45,
           IF body # <<>> /\ body[1] \in {43, 45} THEN Tail(body) ELSE body,
           DigitRun(IF body # <<>> /\ body[1] \in {43, 45} THEN Tail(body) ELSE body))

\* int(value) of a str: whitespace around it, one sign, then decimal digits
\* with single underscores between digits only
IntLiteral(chars) == IntSigned(LStrip(chars))

----------------------------------------------------------------------------
(* The outcome of calling a tool on the dict `state` (the run's own state  *)
(* object, not a copy):                                                    *)
(*   raised  the call raised; exc is str(exception)                        *)
(*   st      the state object after the call (a tool may write to it)      *)
(*   none    the call returned None; otherwise d is the returned dict      *)
(*   mid     the state object as it was after each write of the tool but   *)
(*           the last, in the order of the writes                          *)

Raise(msg, st) ==
    [raised |-> TRUE, exc |-> msg, st |-> st, none |-> FALSE, d |-> EmptyDict, mid |-> <<>>]
Return(d, st) ==
    [raised |-> FALSE, exc |-> <<>>, st |-> st, none |-> FALSE, d |-> d, mid |-> <<>>]

\* int(value) of the str chars, literal what IntLiteral makes of it: the
\* message of the ValueError holds the number of digits, or the first 200
\* characters of the literal's repr
IntStr(chars, literal) ==
    CASE literal.err = "" -> [raised |-> FALSE, n |-> literal.n, exc |-> <<>>]
      [] literal.err = "limit" ->
            [raised |-> TRUE, n |-> 0,
             exc |-> Str("Exceeds the limit (4300 digits) for integer string conversion: value has ")
                     \o Decimal(literal.digits)
                     \o Str(" digits; use sys.set_int_max_str_digits() to increase the limit")]
      [] literal.err = "literal" ->
            [raised |-> TRUE, n |-> 0,
             exc |-> Str("invalid literal for int() with base 10: ")
                     \o SliceTo(Repr(chars), 200)]

\* int(value): the number n of an int, a bool (0 or 1) or a str that writes
\* an integer; raised, with exc the str(exception), on the ValueError of
\* another str and on the TypeError of None and of a list
int(v) ==
    CASE v.t \in {"int", "bool"} -> [raised |-> FALSE, n |-> v.n, exc |-> <<>>]
      [] v.t = "str" -> IntStr(v.s[1], IntLiteral(v.s[1]))
      [] OTHER ->
            [raised |-> TRUE, n |-> 0,
             exc |-> Str("int() argument must be a string, a bytes-like object or a real number, not '")
                     \o TypeName(v) \o Str("'")]

\* str(exception) of the AttributeError of value.split() for a value that is no str
NoSplit(v) == Str("'") \o TypeName(v) \o Str("' object has no attribute 'split'")

\* the items a for loop or join draws from value: a list's items, a str's characters
Iterable(v) == v.t \in {"list", "str"}
ItemsOf(v) == IF v.t = "list" THEN v.s ELSE [i \in 1..Len(v.s[1]) |-> <<v.s[1][i]>>]

\* the chunks appended for i = 0, chunk_size, 2 * chunk_size, ... below
\* len(words), chunk_size > 0
ChunksFrom(words, chunk_size) ==
    [k \in 1..((Len(words) + chunk_size - 1) \div chunk_size) |->
        Join(SliceFrom(words, (k - 1) * chunk_size, chunk_size))]

\* _simple_chunk_text(text, chunk_size) for a str text: range() raises ValueError
\* on the step 0 and is empty on a negative step
_simple_chunk_text(chars, chunk_size) ==
    IF chunk_size = 0
    THEN [raised |-> TRUE, exc |-> Str("range() arg 3 must not be zero"), chunks |-> <<>>]
    ELSE [raised |-> FALSE, exc |-> <<>>,
          chunks |-> IF chunk_size < 0 THEN <<>> ELSE ChunksFrom(Split(chars), chunk_size)]

\* split_text with text and chunk_size read: chunk_size is what int() made
\* of state.get("chunk_size", 50)
split_text_of(state, text, chunk_size, chunked) ==
    IF chunk_size.raised THEN Raise(chunk_size.exc, state)
    ELSE IF text.t # "str" THEN Raise(NoSplit(text), state)
    ELSE IF chunked.raised THEN Raise(chunked.exc, state)
    ELSE Return([k \in {"chunks"} |-> VList(chunked.chunks)], state)

split_text_at(state, text, chunk_size) ==
    split_text_of(state, text, chunk_size, _simple_chunk_text(text.s[1], chunk_size.n))

split_text(state) ==
    split_text_at(state, DictGet(state, "text", VStr(<<>>)),
                  int(DictGet(state, "chunk_size", VInt(50))))

\* generate_summaries with chunks and max_words read: max_words is what
\* int() made of state.get("per_chunk_summary_words", 20)
generate_summaries_of(state, chunks, max_words) ==
    IF max_words.raised THEN Raise(max_words.exc, state)
    ELSE IF ~Iterable(chunks)
    THEN Raise(Str("'") \o TypeName(chunks) \o Str("' object is not iterable"), state)
    ELSE Return([k \in {"summaries"} |->
                    VList([i \in 1..Len(ItemsOf(chunks)) |->
                              Join(SliceTo(Split(ItemsOf(chunks)[i]), max_words.n))])],
                state)

generate_summaries(state) ==
    generate_summaries_of(state, DictGet(state, "chunks", VList(<<>>)),
                          int(DictGet(state, "per_chunk_summary_words", VInt(20))))

merge_summaries(state) ==
    LET summaries == DictGet(state, "summaries", VList(<<>>))
    IN  IF ~Iterable(summaries) THEN Raise(Str("can only join an iterable"), state)
        ELSE Return([k \in {"draft_summary"} |-> VStr(Join(ItemsOf(summaries)))], state)

RefineKeys ==
    {"text", "chunk_size", "per_chunk_summary_words", "summary_limit_words",
     "final_summary", "is_summary_short_enough", "chunks", "summaries", "draft_summary"}

refine_summary(state) ==
    LET draft == DictGet(state, "draft_summary", VStr(<<>>))
        limit == DictGet(state, "summary_limit_words", VInt(40))
        words == Split(draft.s[1])
        final_summary ==
            VStr(Join(IF limit.t = "none" THEN words ELSE SliceTo(words, limit.n)))
        is_short_enough == VBool(Len(words) <= limit.n)
        \* state["final_summary"] = ...
        first == DictSet(state, "final_summary", final_summary)
        \* state["is_summary_short_enough"] = ...
        written == DictSet(first, "is_summary_short_enough", is_short_enough)
    IN  IF draft.t # "str" THEN Raise(NoSplit(draft), state)
        ELSE IF limit.t \notin {"int", "bool", "none"}
        THEN Raise(Str("slice indices must be integers or None or have an __index__ method"),
                   state)
        ELSE IF limit.t = "none"
        THEN Raise(Str("'<=' not supported between instances of 'int' and 'NoneType'"), state)
        ELSE [Return([k \in RefineKeys |->
                         CASE k = "final_summary" -> final_summary
                           [] k = "is_summary_short_enough" -> is_short_enough
                           [] k = "draft_summary" -> draft
                           [] OTHER -> DictGet(written, k, VNone)],
                     written)
              EXCEPT !.mid = <<first>>]

\* ToolRegistry._tools after the four registrations of main.py: node name ->
\* the function registered under it.  No tool is registered under "X", ""
\* or "end".
tool_registry ==
    (Str("split_text") :> "split_text")
        @@ (Str("generate_summaries") :> "generate_summaries")
        @@ (Str("merge_summaries") :> "merge_summaries")
        @@ (Str("refine_summary") :> "refine_summary")

\* ToolRegistry.get: found is FALSE where the code raises KeyError, whose
\* str() is the repr of its message
ToolRegistryGet(name) ==
    IF name \notin DOMAIN tool_registry
    THEN [found |-> FALSE, tool |-> "",
          exc |-> Repr(Str("Tool '") \o name \o Str("' is not registered"))]
    ELSE [found |-> TRUE, tool |-> tool_registry[name], exc |-> <<>>]

\* tool(run.state)
CallTool(tool, state) ==
    CASE tool = "split_text" -> split_text(state)
      [] tool = "generate_summaries" -> generate_summaries(state)
      [] tool = "merge_summaries" -> merge_summaries(state)
      [] tool = "refine_summary" -> refine_summary(state)

----------
(* engine.py *)

max_steps == 1000

\* Graph(graph_id, nodes, start_node, edges)
Graph(graph_id, nodes, start_node, edges) ==
    [graph_id |-> graph_id, nodes |-> nodes, start_node |-> start_node, edges |-> edges]

\* RunRecord(...) as run_graph constructs it; state is dict(initial_state), a
\* new dict with the same keys and values
RunRecord(run_id, graph_id, start_node, initial_state) ==
    [run_id |-> run_id, graph_id |-> graph_id, status |-> "running",
     current_node |-> Some(start_node),
     state |-> [k \in DOMAIN initial_state |-> initial_state[k]],
     log |-> <<>>, error_message |-> None]

\* a run record built with state=initial_state: the run's state and the caller's
\* dict are one object, and the caller's dict is whatever the run made of it
InitialStateAfter_same_object(initial_state, state) == state

\* The caller's initial_state dict after a statement that left the run's state
\* as `state`.  run_graph gave the run dict(initial_state), a dict of its own,
\* so the writes of the run (the tool's and the merge's) are not in the
\* caller's.
InitialStateAfter(initial_state, state) == initial_state

\* NodeLogEntry(node=current, state=dict(run.state))
NodeLogEntry(node, state) == [node |-> node, state |-> state]

\* a generator that repeats itself: every call returns the same identifier
uuid4_repeating(issued) == 1

\* str(uuid4()): an identifier no earlier call returned (the least one here)
uuid4(issued) == CHOOSE i \in 1..(Cardinality(issued) + 1) : i \notin issued

\* `name in nodes` for the list nodes
InList(name, nodes) == \E i \in 1..Len(nodes) : nodes[i] = name

\* _resolve_next_node(edge_cfg, state): next is the Optional[str] returned;
\* raised where edge_cfg["on_true"] / edge_cfg["on_false"] raises KeyError
_resolve_next_node(edge_cfg, state) ==
    LET condition_key == DictGet(edge_cfg, "condition_key", None)
        flag == Truthy(DictGet(state, condition_key[1], VNone))
        branch == IF flag THEN "on_true" ELSE "on_false"
    IN  IF edge_cfg = EmptyDict THEN [raised |-> FALSE, exc |-> <<>>, next |-> None]
        ELSE IF condition_key # None
        THEN IF branch \in DOMAIN edge_cfg
             THEN [raised |-> FALSE, exc |-> <<>>, next |-> edge_cfg[branch]]
             ELSE [raised |-> TRUE, exc |-> Repr(Str(branch)), next |-> None]
        ELSE [raised |-> FALSE, exc |-> <<>>, next |-> DictGet(edge_cfg, "next", None)]

\* `tool(run.state) or {}`: None and the empty dict both give {}
OrEmpty(out) == IF out.none THEN EmptyDict ELSE out.d

\* a loop without the cap on steps
LoopCondition_uncapped(current, steps) == StrTruthy(current)

\* a loop whose cap lets one more pass through
LoopCondition_late(current, steps) == StrTruthy(current) /\ steps <= max_steps

\* a loop whose cap lets two more passes through
LoopCondition_later(current, steps) == StrTruthy(current) /\ steps <= max_steps + 1

\* the condition of the while loop
LoopCondition(current, steps) == StrTruthy(current) /\ steps < max_steps

\* what a service call gave its caller: the exception class it raised ("" when
\* it returned) and the id of the graph or run record it returned (0 when none)
Outcome(op, exc, id) == [op |-> op, exc |-> exc, id |-> id]

\* no tool call under way
NoCall == Return(EmptyDict, EmptyDict)

\* The locals of a run_graph call that has registered its run record and
\* entered _execute_run (lines 126-127):
\*   graph, current, steps   the locals of _execute_run
\*   initial_state           the dict the caller passed
\*   pc                      the line of engine.py the call executes next
\*   out, w                  the tool call of this pass and how many of its
\*                           writes to the state object are done
\*   exc                     str(exc) of the exception on its way to line 102
Frame(graph, initial_state) ==
    [graph |-> graph, current |-> Some(graph.start_node), steps |-> 0,
     initial_state |-> initial_state, pc |-> "l129", out |-> NoCall, w |-> 0,
     exc |-> <<>>]

----------------------------------------------------------------------------
(* The inputs of the service calls *)

MaxGraphs == 2      \* graphs stored in GraphStoreSpec
MaxRuns == 2        \* runs started in Spec
SingleBudget == 5   \* passes of the loop explored in SingleRunSpec
CyclicBudget == 1003  \* passes of the loop explored in CyclicRunSpec, past max_steps

\* edge rules as the dicts the caller sends
Linear(next) == [k \in {"next"} |-> next]
Conditional(key, on_true, on_false) ==
    [k \in {"condition_key", "on_true", "on_false"} |->
        CASE k = "condition_key" -> Some(key)
          [] k = "on_true" -> on_true
          [] k = "on_false" -> on_false]
\* a dict without the key k
Without(d, k) == [x \in (DOMAIN d) \ {k} |-> d[x]]

\* initial_state values
EmptyState == EmptyDict
\* a key that no tool reads or returns
Tagged == [k \in {"tag"} |-> VBool(TRUE)]
\* three words, chunked by two, one word kept per chunk, and a limit of one word:
\* the draft has two words and is never short enough
LongText ==
    [k \in {"text", "chunk_size", "per_chunk_summary_words", "summary_limit_words"} |->
        CASE k = "text" -> VStr(Str("a b c"))
          [] k = "chunk_size" -> VInt(2)
          [] k = "per_chunk_summary_words" -> VInt(1)
          [] k = "summary_limit_words" -> VInt(1)]
\* chunk_size 0: split_text raises
BadChunk ==
    [k \in {"text", "chunk_size"} |->
        IF k = "text" THEN VStr(Str("a b c")) ELSE VInt(0)]
\* a limit that is no number: refine_summary raises
BadLimit == [LongText EXCEPT !["summary_limit_words"] = VStr(Str("x"))]
\* chunks left by an earlier use, and no text: split_text returns no chunks
StaleChunks == [k \in {"chunks"} |-> VList(<<Str("x")>>)]
\* a draft of two words and a limit of one
Draft ==
    [k \in {"draft_summary", "summary_limit_words"} |->
        IF k = "draft_summary" THEN VStr(Str("a c")) ELSE VInt(1)]

InitialStates == {EmptyState, Tagged, LongText, BadChunk, BadLimit, StaleChunks, Draft}

\* the example graph of main.py (Option B: summarization + refinement)
OptionB ==
    [nodes |-> <<Str("split_text"), Str("generate_summaries"), Str("merge_summaries"), Str("refine_summary")>>,
     start_node |-> Str("split_text"),
     edges |-> [n \in {Str("split_text"), Str("generate_summaries"), Str("merge_summaries"),
                       Str("refine_summary")} |->
                  CASE n = Str("split_text") -> Linear(Some(Str("generate_summaries")))
                    [] n = Str("generate_summaries") -> Linear(Some(Str("merge_summaries")))
                    [] n = Str("merge_summaries") -> Linear(Some(Str("refine_summary")))
                    [] n = Str("refine_summary") ->
                         Conditional("is_summary_short_enough", Some(Str("end")),
                                     Some(Str("refine_summary")))]]

\* the tools a generated graph starts with, the other tool its edges may name
\* and the key its conditional rules test: one the tool returns
StartTools == {Str("split_text"), Str("refine_summary")}
OtherTool(a) == IF a = Str("split_text") THEN Str("refine_summary") ELSE Str("split_text")
ConditionKey(a) == IF a = Str("split_text") THEN "chunks" ELSE "is_summary_short_enough"

\* the nodes an edge of a generated graph may name: the sentinel, the node
\* itself, another tool, a name with no tool, and the empty name
Targets(a) == {Some(Str("end")), Some(a), Some(OtherTool(a)), Some(Str("X")), Some(Str(""))}

\* every edge rule for node a: none, empty, linear, conditional, and
\* conditional with one branch missing
EdgeCfgs(a) ==
    {EmptyDict, Linear(None)}
    \cup {Linear(t) : t \in Targets(a)}
    \cup {Conditional(ConditionKey(a), t, f) : t \in Targets(a), f \in Targets(a)}
    \cup {Without(Conditional(ConditionKey(a), t, t), "on_false") : t \in Targets(a)}
    \cup {Without(Conditional(ConditionKey(a), f, f), "on_true") : f \in Targets(a)}

\* graphs of one starting tool a with every edge rule, the other nodes declared
GraphsFrom(a) ==
    {[nodes |-> <<a, OtherTool(a), Str("X"), Str("")>>, start_node |-> a,
      edges |-> [n \in {a} |-> cfg]] : cfg \in EdgeCfgs(a)}
GeneratedGraphs == UNION {GraphsFrom(a) : a \in StartTools}

\* a node without an edge rule, a start node outside nodes, the empty name as
\* the start node, a start node with no tool, an edge to a node that is not
\* declared
SingleNode == [nodes |-> <<Str("split_text")>>, start_node |-> Str("split_text"), edges |-> EmptyDict]
BadStart == [nodes |-> <<Str("split_text")>>, start_node |-> Str("refine_summary"), edges |-> EmptyDict]
EmptyName == [nodes |-> <<Str("")>>, start_node |-> Str(""), edges |-> EmptyDict]
Unregistered == [nodes |-> <<Str("X")>>, start_node |-> Str("X"), edges |-> EmptyDict]
Undeclared ==
    [nodes |-> <<Str("split_text")>>, start_node |-> Str("split_text"),
     edges |-> [n \in {Str("split_text")} |-> Linear(Some(Str("generate_summaries")))]]

\* one node, which is the start node, and no edge rule: one graph per
\* registered tool
SingleNodeGraphs ==
    {[nodes |-> <<x>>, start_node |-> x, edges |-> EmptyDict] : x \in DOMAIN tool_registry}

\* the graph definitions of the single-run specification
AllGraphDefs ==
    GeneratedGraphs \cup SingleNodeGraphs
        \cup {OptionB, SingleNode, BadStart, EmptyName, Unregistered, Undeclared}

\* refine_summary, then a node with no tool when the summary is short enough:
\* the run completes after one pass when it is not, and fails in its second
\* pass when it is
BranchOnShort ==
    [nodes |-> <<Str("refine_summary")>>, start_node |-> Str("refine_summary"),
     edges |-> [n \in {Str("refine_summary")} |->
                  Conditional("is_summary_short_enough", Some(Str("X")), Some(Str("end")))]]

\* the graph definitions of Spec, where several runs coexist
GraphDefs == {BadStart, BranchOnShort}

\* the initial states of Spec: no draft, which is short enough, and a draft
\* that is not
SpecStates == {EmptyState, Draft}

\* the graph definitions of GraphStoreSpec: every edge rule, and a start node
\* outside nodes
StoredGraphDefs == GraphsFrom(Str("split_text")) \cup {BadStart}

----------------------------------------------------------------------------
(* The service calls *)

Init ==
    /\ graphs = EmptyDict
    /\ runs = EmptyDict
    /\ frames = EmptyDict
    /\ result = Outcome("", "", 0)

\* a create_graph that validates after it stored the graph
create_graph_stores_first(nodes, start_node, edges, max_graphs) ==
    LET graph_id == uuid4(DOMAIN graphs)
    IN  /\ Cardinality(DOMAIN graphs) < max_graphs
        /\ graphs' = DictSet(graphs, graph_id, Graph(graph_id, nodes, start_node, edges))
        /\ result' = IF ~InList(start_node, nodes)
                     THEN Outcome("create_graph", "ValueError", 0)
                     ELSE Outcome("create_graph", "", graph_id)
        /\ UNCHANGED <<runs, frames>>

\* GraphEngine.create_graph
create_graph(nodes, start_node, edges, max_graphs) ==
    IF ~InList(start_node, nodes)
    THEN /\ result' = Outcome("create_graph", "ValueError", 0)
         /\ UNCHANGED <<graphs, runs, frames>>
    ELSE LET graph_id == uuid4(DOMAIN graphs)
         IN  /\ Cardinality(DOMAIN graphs) < max_graphs
             /\ graphs' = DictSet(graphs, graph_id,
                                  Graph(graph_id, nodes, start_node, edges))
             /\ result' = Outcome("create_graph", "", graph_id)
             /\ UNCHANGED <<runs, frames>>

\* a run_graph that registers the run record before it looks the graph up
run_graph_registers_first(graph_id, initial_state, max_runs) ==
    LET run_id == uuid4(DOMAIN runs)
    IN  /\ Cardinality(DOMAIN runs) < max_runs
        /\ IF graph_id \notin DOMAIN graphs
           THEN /\ runs' = DictSet(runs, run_id, RunRecord(run_id, graph_id, Str(""), initial_state))
                /\ result' = Outcome("run_graph", "KeyError", 0)
                /\ UNCHANGED <<graphs, frames>>
           ELSE /\ runs' = DictSet(runs, run_id,
                                   RunRecord(run_id, graph_id, graphs[graph_id].start_node,
                                             initial_state))
                /\ frames' = DictSet(frames, run_id, Frame(graphs[graph_id], initial_state))
                /\ UNCHANGED <<graphs, result>>

\* GraphEngine.run_graph up to the loop of _execute_run (lines 83-96 and
\* 125-127): the lookup of the graph and the registration of the run record
run_graph(graph_id, initial_state, max_runs) ==
    IF graph_id \notin DOMAIN graphs
    THEN /\ result' = Outcome("run_graph", "KeyError", 0)
         /\ UNCHANGED <<graphs, runs, frames>>
    ELSE LET graph == graphs[graph_id]
             run_id == uuid4(DOMAIN runs)
         IN  /\ Cardinality(DOMAIN runs) < max_runs
             /\ runs' = DictSet(runs, run_id,
                                RunRecord(run_id, graph_id, graph.start_node, initial_state))
             /\ frames' = DictSet(frames, run_id, Frame(graph, initial_state))
             /\ UNCHANGED <<graphs, result>>

\* the run_graph call of run_id is about to execute line pc
At(run_id, pc) == run_id \in DOMAIN frames /\ frames[run_id].pc = pc

\* lines 129-130: the test of the loop condition and, when it holds,
\* run.current_node = current; when it does not, _execute_run returns
loop_test(run_id, budget) ==
    /\ At(run_id, "l129")
    /\ frames[run_id].steps < budget
    /\ LET f == frames[run_id]
       IN  IF LoopCondition(f.current, f.steps)
           THEN /\ runs' = [runs EXCEPT ![run_id].current_node = f.current]
                /\ frames' = [frames EXCEPT ![run_id].pc = "l131"]
           ELSE /\ runs' = runs
                /\ frames' = [frames EXCEPT ![run_id].pc = "l100"]
    /\ UNCHANGED <<graphs, result>>

\* lines 131-134: the lookup of the tool and its call on run.state, up to the
\* tool's first write to that dict or, when it writes nothing, to its return
call_tool(run_id) ==
    /\ At(run_id, "l131")
    /\ LET f == frames[run_id]
           got == ToolRegistryGet(f.current[1])
           out == CallTool(got.tool, runs[run_id].state)
           after == IF out.mid # <<>> THEN out.mid[1] ELSE out.st
       IN  IF ~got.found
           THEN /\ runs' = runs
                /\ frames' = [frames EXCEPT ![run_id].pc = "l103", ![run_id].exc = got.exc]
           ELSE /\ runs' = [runs EXCEPT ![run_id].state = after]
                /\ frames' =
                      [frames EXCEPT
                          ![run_id].pc = IF out.raised THEN "l103"
                                         ELSE IF out.mid # <<>> THEN "l134" ELSE "l136",
                          ![run_id].exc = out.exc,
                          ![run_id].out = out,
                          ![run_id].w = IF out.mid # <<>> THEN 1 ELSE 0,
                          ![run_id].initial_state = InitialStateAfter(f.initial_state, after)]
    /\ UNCHANGED <<graphs, result>>

\* line 134, inside the tool: its next write to the state object and, after
\* the last one, its return
tool_write(run_id) ==
    /\ At(run_id, "l134")
    /\ LET f == frames[run_id]
           last == f.w = Len(f.out.mid)
           after == IF last THEN f.out.st ELSE f.out.mid[f.w + 1]
       IN  /\ runs' = [runs EXCEPT ![run_id].state = after]
           /\ frames' =
                 [frames EXCEPT
                     ![run_id].pc = IF last THEN "l136" ELSE "l134",
                     ![run_id].w = f.w + 1,
                     ![run_id].initial_state = InitialStateAfter(f.initial_state, after)]
    /\ UNCHANGED <<graphs, result>>

\* an update that also shows in the entries already logged, as it would if
\* they held run.state itself and not a copy of it
state_update_through_log(run_id) ==
    /\ At(run_id, "l136")
    /\ LET f == frames[run_id]
           merged == DictUpdate(runs[run_id].state, OrEmpty(f.out))
       IN  /\ runs' = [runs EXCEPT ![run_id].state = merged,
                                   ![run_id].log = [i \in 1..Len(runs[run_id].log) |->
                                                       NodeLogEntry(runs[run_id].log[i].node,
                                                                    merged)]]
           /\ frames' =
                 [frames EXCEPT
                     ![run_id].pc = "l139",
                     ![run_id].initial_state = InitialStateAfter(f.initial_state, merged)]
    /\ UNCHANGED <<graphs, result>>

\* line 136: run.state.update(new_state)
state_update(run_id) ==
    /\ At(run_id, "l136")
    /\ LET f == frames[run_id]
           merged == DictUpdate(runs[run_id].state, OrEmpty(f.out))
       IN  /\ runs' = [runs EXCEPT ![run_id].state = merged]
           /\ frames' =
                 [frames EXCEPT
                     ![run_id].pc = "l139",
                     ![run_id].initial_state = InitialStateAfter(f.initial_state, merged)]
    /\ UNCHANGED <<graphs, result>>

\* an append that is left out when the node's edge rule is going to raise
log_append_unless_edge_fails(run_id) ==
    /\ At(run_id, "l139")
    /\ LET f == frames[run_id]
           edge_cfg == DictGet(f.graph.edges, f.current[1], EmptyDict)
       IN  runs' = IF _resolve_next_node(edge_cfg, runs[run_id].state).raised THEN runs
                   ELSE [runs EXCEPT ![run_id].log =
                            Append(@, NodeLogEntry(f.current[1], runs[run_id].state))]
    /\ frames' = [frames EXCEPT ![run_id].pc = "l142"]
    /\ UNCHANGED <<graphs, result>>

\* line 139: run.log.append(NodeLogEntry(node=current, state=dict(run.state)))
log_append(run_id) ==
    /\ At(run_id, "l139")
    /\ runs' = [runs EXCEPT ![run_id].log =
                   Append(@, NodeLogEntry(frames[run_id].current[1], runs[run_id].state))]
    /\ frames' = [frames EXCEPT ![run_id].pc = "l142"]
    /\ UNCHANGED <<graphs, result>>

\* an edge resolution on the state that the tool was called on and left,
\* without the update
next_node_premerge(run_id) ==
    /\ At(run_id, "l142")
    /\ LET f == frames[run_id]
           edge_cfg == DictGet(f.graph.edges, f.current[1], EmptyDict)
           res == _resolve_next_node(edge_cfg, f.out.st)
           stop == ~StrTruthy(res.next) \/ res.next = Some(Str("end"))
       IN  frames' =
               [frames EXCEPT
                   ![run_id].pc = IF res.raised THEN "l103"
                                  ELSE IF stop THEN "l100" ELSE "l129",
                   ![run_id].exc = res.exc,
                   ![run_id].current = IF res.raised \/ stop THEN f.current ELSE res.next,
                   ![run_id].steps = IF res.raised \/ stop THEN f.steps ELSE f.steps + 1,
                   ![run_id].out = NoCall,
                   ![run_id].w = 0]
    /\ UNCHANGED <<graphs, runs, result>>

\* lines 142-149: the edge rule of the node, its resolution on run.state, and
\* the break out of the loop or the step to the next node
next_node(run_id) ==
    /\ At(run_id, "l142")
    /\ LET f == frames[run_id]
           edge_cfg == DictGet(f.graph.edges, f.current[1], EmptyDict)
           res == _resolve_next_node(edge_cfg, runs[run_id].state)
           stop == ~StrTruthy(res.next) \/ res.next = Some(Str("end"))
       IN  frames' =
               [frames EXCEPT
                   ![run_id].pc = IF res.raised THEN "l103"
                                  ELSE IF stop THEN "l100" ELSE "l129",
                   ![run_id].exc = res.exc,
                   ![run_id].current = IF res.raised \/ stop THEN f.current ELSE res.next,
                   ![run_id].steps = IF res.raised \/ stop THEN f.steps ELSE f.steps + 1,
                   ![run_id].out = NoCall,
                   ![run_id].w = 0]
    /\ UNCHANGED <<graphs, runs, result>>

\* The loop of _execute_run for the run run_id (lines 129-149), one statement
\* that writes to the run record at a time.
_execute_run(run_id, budget) ==
    \/ loop_test(run_id, budget)
    \/ call_tool(run_id)
    \/ tool_write(run_id)
    \/ state_update(run_id)
    \/ log_append(run_id)
    \/ next_node(run_id)

\* line 100: run.status = "completed"
status_completed(run_id) ==
    /\ At(run_id, "l100")
    /\ runs' = [runs EXCEPT ![run_id].status = "completed"]
    /\ frames' = [frames EXCEPT ![run_id].pc = "l101"]
    /\ UNCHANGED <<graphs, result>>

\* a return that keeps the last node in current_node
return_completed_keeps_node(run_id) ==
    /\ At(run_id, "l101")
    /\ frames' = Without(frames, run_id)
    /\ result' = Outcome("run_graph", "", run_id)
    /\ UNCHANGED <<graphs, runs>>

\* lines 101 and 106: run.current_node = None and the return of the record
return_completed(run_id) ==
    /\ At(run_id, "l101")
    /\ runs' = [runs EXCEPT ![run_id].current_node = None]
    /\ frames' = Without(frames, run_id)
    /\ result' = Outcome("run_graph", "", run_id)
    /\ UNCHANGED graphs

\* an except clause that undoes the run's progress
status_error_rollback(run_id) ==
    /\ At(run_id, "l103")
    /\ runs' = [runs EXCEPT ![run_id].status = "error",
                            ![run_id].log = <<>>,
                            ![run_id].state = EmptyDict]
    /\ frames' = [frames EXCEPT ![run_id].pc = "l104"]
    /\ UNCHANGED <<graphs, result>>

\* lines 102-103: the except clause's run.status = "error"
status_error(run_id) ==
    /\ At(run_id, "l103")
    /\ runs' = [runs EXCEPT ![run_id].status = "error"]
    /\ frames' = [frames EXCEPT ![run_id].pc = "l104"]
    /\ UNCHANGED <<graphs, result>>

\* lines 104 and 106: run.error_message = str(exc) and the return of the record
return_error(run_id) ==
    /\ At(run_id, "l104")
    /\ runs' = [runs EXCEPT ![run_id].error_message = Some(frames[run_id].exc)]
    /\ frames' = Without(frames, run_id)
    /\ result' = Outcome("run_graph", "", run_id)
    /\ UNCHANGED graphs

\* run_graph from the return of _execute_run, or from the exception it let
\* through, to its own return (lines 100-106)
Finish(run_id) ==
    \/ status_completed(run_id)
    \/ return_completed(run_id)
    \/ status_error(run_id)
    \/ return_error(run_id)

\* a get_run that only finds the runs that have ended
get_run_terminal_only(run_id) ==
    /\ result' = IF run_id \notin DOMAIN runs \/ runs[run_id].status = "running"
                 THEN Outcome("get_run", "KeyError", 0)
                 ELSE Outcome("get_run", "", run_id)
    /\ UNCHANGED <<graphs, runs, frames>>

\* GraphEngine.get_run
get_run(run_id) ==
    /\ result' = IF run_id \notin DOMAIN runs
                 THEN Outcome("get_run", "KeyError", 0)
                 ELSE Outcome("get_run", "", run_id)
    /\ UNCHANGED <<graphs, runs, frames>>

CreateGraph == \E g \in GraphDefs : create_graph(g.nodes, g.start_node, g.edges, 1)
RunGraph == \E graph_id \in {1, 2}, s \in SpecStates : run_graph(graph_id, s, MaxRuns)
ExecuteRun == \E run_id \in DOMAIN frames : _execute_run(run_id, CyclicBudget)
FinishRun == \E run_id \in DOMAIN frames : Finish(run_id)
GetRun == \E run_id \in 1..(MaxRuns + 1) : get_run(run_id)

Next == CreateGraph \/ RunGraph \/ ExecuteRun \/ FinishRun \/ GetRun

\* One graph and several runs of it.  Each run_graph call runs on a thread of
\* its own, so its statements interleave with the other calls and with the
\* statements of the other runs; the runs of a single-threaded caller are
\* among these behaviours.
Spec == Init /\ [][Next]_vars

CreateStoredGraph ==
    \E g \in StoredGraphDefs : create_graph(g.nodes, g.start_node, g.edges, MaxGraphs)

\* the Graph Store alone: several graphs, stored one after the other
GraphStoreSpec == Init /\ [][CreateStoredGraph]_vars

CreateOneGraph == \E g \in AllGraphDefs : create_graph(g.nodes, g.start_node, g.edges, 1)
RunOnce == \E graph_id \in {1, 2}, s \in InitialStates : run_graph(graph_id, s, 1)
ExecuteOneRun == \E run_id \in DOMAIN frames : _execute_run(run_id, SingleBudget)
GetRunOnce == \E run_id \in {1, 2} : get_run(run_id)

NextSingle == CreateOneGraph \/ RunOnce \/ ExecuteOneRun \/ FinishRun \/ GetRunOnce

\* one graph out of every shape of edge rule and one run of it, explored for
\* SingleBudget passes
SingleRunSpec == Init /\ [][NextSingle]_vars

\* a node that leads to itself unconditionally
SelfLoop ==
    [nodes |-> <<Str("split_text")>>, start_node |-> Str("split_text"),
     edges |-> [n \in {Str("split_text")} |-> Linear(Some(Str("split_text")))]]
\* a node that leads to itself until there are chunks
ChunkWait ==
    [nodes |-> <<Str("split_text")>>, start_node |-> Str("split_text"),
     edges |-> [n \in {Str("split_text")} |->
                  Conditional("chunks", Some(Str("end")), Some(Str("split_text")))]]
\* a node that leads to itself until its own tool finds the summary short enough
RefineLoop ==
    [nodes |-> <<Str("refine_summary")>>, start_node |-> Str("refine_summary"),
     edges |-> [n \in {Str("refine_summary")} |->
                  Conditional("is_summary_short_enough", Some(Str("end")),
                              Some(Str("refine_summary")))]]
\* two nodes that lead to each other
TwoCycle ==
    [nodes |-> <<Str("split_text"), Str("generate_summaries")>>, start_node |-> Str("split_text"),
     edges |-> [n \in {Str("split_text"), Str("generate_summaries")} |->
                  IF n = Str("split_text") THEN Linear(Some(Str("generate_summaries")))
                  ELSE Linear(Some(Str("split_text")))]]

\* graphs with a cycle
CyclicGraphDefs == {ChunkWait, RefineLoop, TwoCycle}

\* the initial states of the runs carried to their end: no text, of which
\* split_text makes no chunks, and a chunk size that makes it raise
CyclicStates == {EmptyState, BadChunk}

CreateCyclicGraph ==
    \E g \in CyclicGraphDefs : create_graph(g.nodes, g.start_node, g.edges, 1)
RunCyclic == \E s \in CyclicStates : run_graph(1, s, 1)
ExecuteRunToEnd == \E run_id \in DOMAIN frames : _execute_run(run_id, CyclicBudget)

NextCyclic == CreateCyclicGraph \/ RunCyclic \/ ExecuteRunToEnd \/ FinishRun

\* one cyclic graph and one run of it, carried to its end: CyclicBudget lies
\* past max_steps, so that the loop condition alone ends the run
CyclicRunSpec == Init /\ [][NextCyclic]_vars

\* a graph whose runs only the cap or a failure ends, and one whose runs end
\* after their first pass
LiveGraphDefs == {SelfLoop, RefineLoop}

\* the initial states of LiveRunSpec: on the first the summary is short enough
\* and split_text returns, on the second it raises
LiveStates == {EmptyState, BadChunk}

CreateLiveGraph == \E g \in LiveGraphDefs : create_graph(g.nodes, g.start_node, g.edges, 1)
RunLive == \E s \in LiveStates : run_graph(1, s, 1)

\* the next statement of a run_graph call under way
RunOn == ExecuteRunToEnd \/ FinishRun

NextLive == CreateLiveGraph \/ RunLive \/ RunOn

\* One graph and one run of it, carried on to its end.  run_graph is
\* synchronous and its thread is scheduled again and again: when a tool
\* invocation returns or raises, the statements after it follow, so a
\* statement that can be executed is executed.
LiveRunSpec == Init /\ [][NextLive]_vars /\ WF_vars(RunOn)

----------------------------------------------------------------------------
(* Properties *)

Terminal(run) == run.status \in {"completed", "error"}

\* run_graph has returned the record of the run id
Returned(id) == id \in DOMAIN runs /\ id \notin DOMAIN frames

\* the run_graph call of the run id has caught an exception (lines 102-104)
Caught(id) == At(id, "l103") \/ At(id, "l104")

\* this step is the return of the run_graph call of the run id
Returns(id) == id \in DOMAIN frames /\ id \notin DOMAIN frames'

\* the graph a run was started on
GraphOf(run) == graphs[run.graph_id]

\* seq is an initial part of longer
IsPrefix(seq, longer) ==
    Len(seq) <= Len(longer) /\ SubSeq(longer, 1, Len(seq)) = seq

\* C1: once a run record is Completed or Error, no later operation changes
\* it: its status, state and log stay as they are in every step of every call,
\* and its current_node and error_message are written once more at most, by
\* the last statement of the run_graph call that owns the record (the
\* statement after the one that set the status), never by a further call; once
\* that call has returned, no field of the record changes.
C1_TerminalIsFinal ==
    [][\A id \in DOMAIN runs :
          Terminal(runs[id]) =>
              /\ id \in DOMAIN runs'
              /\ runs'[id].status = runs[id].status
              /\ runs'[id].state = runs[id].state
              /\ runs'[id].log = runs[id].log
              /\ runs'[id].run_id = runs[id].run_id
              /\ runs'[id].graph_id = runs[id].graph_id
              /\ \/ /\ runs'[id].current_node = runs[id].current_node
                    /\ runs'[id].error_message = runs[id].error_message
                 \/ /\ Returns(id)
                    /\ result' = Outcome("run_graph", "", id)]_vars

\* C1 witness: both runs have returned, one completed and one in error with a
\* log, and the last call was a get_run of the first run
C1_Witness ==
    /\ DOMAIN runs = {1, 2}
    /\ DOMAIN graphs = {1}
    /\ Returned(1) /\ Returned(2)
    /\ runs[1].status = "error" /\ runs[1].log # <<>>
    /\ runs[2].status = "completed"
    /\ result = Outcome("get_run", "", 1)

\* C2: when a step of a run fails (the lookup of the tool, the tool or the
\* edge rule raises), the run ends in Error with error_message set and
\* run_graph returns the record instead of raising: from the statement that
\* raised to the return, the except clause sets the status and then the message
\* and leaves state and log as the failing step found them; and no statement
\* of a run ever removes or changes a log entry or removes a key of state.
C2_ErrorKeepsProgress ==
    /\ [][\A id \in DOMAIN runs :
             /\ id \in DOMAIN runs'
             /\ IsPrefix(runs[id].log, runs'[id].log)
             /\ DOMAIN runs[id].state \subseteq DOMAIN runs'[id].state
             /\ Caught(id) =>
                   /\ runs'[id].log = runs[id].log
                   /\ runs'[id].state = runs[id].state
                   /\ runs'[id].status \in {runs[id].status, "error"}
             /\ (At(id, "l103") /\ frames' # frames) =>
                   /\ At(id, "l104")'
                   /\ runs'[id].status = "error"
             /\ (At(id, "l104") /\ frames' # frames) =>
                   /\ Returns(id)
                   /\ runs'[id].status = "error"
                   /\ runs'[id].error_message = Some(frames[id].exc)
                   /\ result' = Outcome("run_graph", "", id)]_vars
    /\ [](\A id \in DOMAIN runs :
             (Returned(id) /\ runs[id].status = "error") => runs[id].error_message # None)

\* C2 witness: the example graph's run has ended in Error in its fourth step,
\* whose tool raised; the log and the state hold what the three steps before
\* it wrote
C2_Witness ==
    \E id \in DOMAIN runs :
        /\ Returned(id)
        /\ runs[id].status = "error"
        /\ runs[id].error_message # None
        /\ Len(runs[id].log) = 3
        /\ "draft_summary" \in DOMAIN runs[id].state
        /\ runs[id].state = runs[id].log[3].state
        /\ runs[id].current_node = Some(Str("refine_summary"))

\* an edge rule with condition_key set
IsConditional(cfg) == DictGet(cfg, "condition_key", None) # None

\* a Conditional rule without on_true or without on_false
MissesBranch(cfg) ==
    IsConditional(cfg) /\ ("on_true" \notin DOMAIN cfg \/ "on_false" \notin DOMAIN cfg)

\* the edge rule of the node of the i-th log entry of run
RuleAt(run, i) == DictGet(GraphOf(run).edges, run.log[i].node, EmptyDict)

\* the successor the rule of the i-th logged node gives on the logged snapshot
ResolvedAt(run, i) == _resolve_next_node(RuleAt(run, i), run.log[i].state)

\* C3: a run that resolved a Conditional rule missing either branch field
\* has ended in Error, whatever the condition key's value.  The code reads
\* only the branch the key selects (engine.py l.160): a run whose rule lacks
\* the other branch completes.
C3_MissingBranchAlwaysFatal ==
    \A id \in DOMAIN runs :
        \A i \in 1..Len(runs[id].log) :
            (Returned(id) /\ MissesBranch(RuleAt(runs[id], i))) => runs[id].status = "error"

\* C4 as stated: a Completed or Error run has current_node unset.
C4_TerminalClearsCurrentNode ==
    \A id \in DOMAIN runs : Terminal(runs[id]) => runs[id].current_node = None

\* C4 amended: current_node is cleared on Completed only, by the statement
\* after the one that sets the status: a Completed record that run_graph has
\* returned has no current_node, and one that still has it is in that last
\* statement of its call; a run in Error keeps in current_node the node whose
\* step failed.
C4_CompletedClearsCurrentNode ==
    \A id \in DOMAIN runs :
        /\ (runs[id].status = "completed" /\ Returned(id)) => runs[id].current_node = None
        /\ (runs[id].status = "completed" /\ runs[id].current_node # None) => At(id, "l101")
        /\ runs[id].status = "error" =>
              /\ StrTruthy(runs[id].current_node)
              /\ \/ runs[id].current_node[1] \notin DOMAIN tool_registry
                 \/ CallTool(tool_registry[runs[id].current_node[1]], runs[id].state).raised
                 \/ /\ runs[id].log # <<>>
                    /\ runs[id].log[Len(runs[id].log)].node = runs[id].current_node[1]
                    /\ ResolvedAt(runs[id], Len(runs[id].log)).raised

\* C4 witness: a run has ended in Error on the edge of the node it had just
\* logged, with that node still in current_node
C4_Witness ==
    \E id \in DOMAIN runs :
        /\ Returned(id)
        /\ runs[id].status = "error"
        /\ runs[id].log # <<>>
        /\ runs[id].current_node = Some(runs[id].log[Len(runs[id].log)].node)
        /\ ResolvedAt(runs[id], Len(runs[id].log)).raised

\* next_node is a node to go on with: set, not empty and not "end"
GoesOn(next) == StrTruthy(next) /\ next # Some(Str("end"))

\* C5: a run that has ended although the rule of its last executed node still
\* led back to that node (a self-loop whose exit never came) executed exactly
\* max_steps = 1000 nodes, is Completed and has no error_message.
C5_CapIsCompletion ==
    \A id \in DOMAIN runs :
        LET run == runs[id]
            last == Len(run.log)
        IN  (/\ Terminal(run)
             /\ last > 0
             /\ ~ResolvedAt(run, last).raised
             /\ ResolvedAt(run, last).next = Some(run.log[last].node)) =>
                /\ last = max_steps
                /\ run.status = "completed"
                /\ run.error_message = None

\* C5 witness: split_text, which leads back to itself until there are chunks,
\* ended at the cap on a state without text, of which it never makes any
C5_Witness ==
    \E id \in DOMAIN runs :
        /\ Returned(id)
        /\ runs[id].status = "completed"
        /\ runs[id].error_message = None
        /\ Len(runs[id].log) = max_steps
        /\ RuleAt(runs[id], max_steps) = Conditional("chunks", Some(Str("end")), Some(Str("split_text")))
        /\ ~Truthy(runs[id].state["chunks"])
        /\ ResolvedAt(runs[id], max_steps).next = Some(Str("split_text"))

\* C6: the log of a run never has more than max_steps + 1 entries, and a
\* statement only appends to it: the entries it had stay where they were,
\* unchanged.
C6_LogBoundedAppendOnly ==
    /\ [](\A id \in DOMAIN runs : Len(runs[id].log) <= max_steps + 1)
    /\ [][\A id \in DOMAIN runs :
             id \in DOMAIN runs' /\ IsPrefix(runs[id].log, runs'[id].log)]_vars

\* C6 witness: the log of a run around a cycle of two nodes has grown to
\* max_steps entries, its first entries still the two nodes in turn
C6_Witness ==
    \E id \in DOMAIN runs :
        /\ Len(runs[id].log) = max_steps
        /\ runs[id].log[1].node = Str("split_text")
        /\ runs[id].log[2].node = Str("generate_summaries")
        /\ runs[id].log[max_steps].node = Str("generate_summaries")

\* the run stands before the node next: its call has resolved the edge of the
\* last logged node and goes on with next, or it has returned in Error on next
StandsAt(id, next) ==
    \/ id \in DOMAIN frames /\ frames[id].pc # "l142" /\ frames[id].current = next
    \/ Returned(id) /\ runs[id].status = "error" /\ runs[id].current_node = next

\* the run has stopped after its last logged node: its call is past the loop,
\* or has returned the Completed record
StoppedAt(id) ==
    \/ At(id, "l100") \/ At(id, "l101")
    \/ Returned(id) /\ runs[id].status = "completed"

\* C7: the branch taken after a node is the one the condition key selects in
\* the state after the node's update was merged (the logged snapshot): on_true
\* iff the key is present and truthy there.  Once the edge of the last logged
\* node is resolved: when that branch is unset or "end" the run stops on that
\* very step; otherwise the next node is that branch.
C7_BranchOnPostMergeState ==
    \A id \in DOMAIN runs :
        \A i \in 1..Len(runs[id].log) :
            LET run == runs[id]
                cfg == RuleAt(run, i)
                key == cfg["condition_key"][1]
                snapshot == run.log[i].state
                flag == key \in DOMAIN snapshot /\ Truthy(snapshot[key])
                branch == IF flag THEN "on_true" ELSE "on_false"
            IN  (IsConditional(cfg) /\ branch \in DOMAIN cfg) =>
                    IF i < Len(run.log)
                    THEN GoesOn(cfg[branch]) /\ run.log[i + 1].node = cfg[branch][1]
                    ELSE \/ At(id, "l142")
                         \/ GoesOn(cfg[branch]) /\ StandsAt(id, cfg[branch])
                         \/ ~GoesOn(cfg[branch]) /\ StoppedAt(id)

\* C7 witness: split_text, started on a text and without chunks under a rule
\* that ends when there are chunks and otherwise goes to another node, stopped
\* after its first step
C7_Witness ==
    \E id \in DOMAIN runs :
        /\ Returned(id)
        /\ runs[id].status = "completed"
        /\ Len(runs[id].log) = 1
        /\ runs[id].log[1].node = Str("split_text")
        /\ DOMAIN runs[id].log[1].state = DOMAIN LongText \cup {"chunks"}
        /\ "chunks" \notin DOMAIN LongText
        /\ Truthy(runs[id].log[1].state["chunks"])
        /\ RuleAt(runs[id], 1) = Conditional("chunks", Some(Str("end")), Some(Str("X")))

\* C8: the merge of a tool's update leaves every key of the update with the
\* returned value, every other key with the value it had, and adds no key but
\* those of the update (an empty update leaves state as it was); the only
\* other statements that change state are a tool's own writes, to keys that
\* its update holds too; and no statement removes a key from state.
C8_MergeIsAdditive ==
    [][\A id \in DOMAIN runs :
          LET before == runs[id].state
              after == runs'[id].state
          IN  /\ DOMAIN before \subseteq DOMAIN after
              /\ (At(id, "l136") /\ At(id, "l139")') =>
                    LET update == OrEmpty(frames[id].out)
                    IN  /\ \A k \in DOMAIN update : after[k] = update[k]
                        /\ \A k \in (DOMAIN before) \ (DOMAIN update) : after[k] = before[k]
                        /\ DOMAIN after = (DOMAIN before) \cup (DOMAIN update)
              /\ (after # before /\ ~At(id, "l136")) =>
                    /\ At(id, "l131") \/ At(id, "l134")
                    /\ \A k \in DOMAIN after :
                          (k \in DOMAIN before /\ after[k] = before[k])
                              \/ k \in DOMAIN OrEmpty(frames'[id].out)]_vars

\* C8 witness: the example graph started with the key "tag": the four tools
\* each added their keys, refine_summary returned all its nine, and "tag" is
\* as it was
C8_Witness ==
    \E id \in DOMAIN runs :
        /\ Len(runs[id].log) = 4
        /\ DOMAIN runs[id].state = RefineKeys \cup {"tag"}
        /\ runs[id].state["tag"] = VBool(TRUE)
        /\ DOMAIN runs[id].log[1].state = {"tag", "chunks"}
        /\ runs[id].state["text"] = VNone
        /\ runs[id].state["chunks"] = runs[id].log[1].state["chunks"]

\* a create_graph call of Spec whose start_node is not among its nodes
RejectedCreate ==
    \E g \in GraphDefs :
        /\ ~InList(g.start_node, g.nodes)
        /\ create_graph(g.nodes, g.start_node, g.edges, 1)

\* C9: create_graph with a start_node outside nodes raises ValueError and
\* stores nothing: both stores are after the call what they were before it,
\* and no stored graph has a start_node outside its nodes.
C9_BadStartRejected ==
    /\ [][RejectedCreate =>
             /\ result' = Outcome("create_graph", "ValueError", 0)
             /\ graphs' = graphs
             /\ runs' = runs]_vars
    /\ [](\A id \in DOMAIN graphs : InList(graphs[id].start_node, graphs[id].nodes))

\* C9 witness: a create_graph was rejected while a graph was stored and a run
\* of it was under way
C9_Witness ==
    /\ result = Outcome("create_graph", "ValueError", 0)
    /\ DOMAIN graphs = {1}
    /\ DOMAIN runs = {1}
    /\ At(1, "l136")

\* a create_graph call of GraphStoreSpec whose start_node is among its nodes
AcceptedCreate(g) ==
    /\ InList(g.start_node, g.nodes)
    /\ create_graph(g.nodes, g.start_node, g.edges, MaxGraphs)

\* C10: create_graph with start_node in nodes succeeds whatever edges holds: it
\* returns an id that no stored graph has, stores the graph as given under it,
\* and leaves every graph stored before as it was.
C10_CreateStoresUnderNewId ==
    [][\A g \in StoredGraphDefs :
          AcceptedCreate(g) =>
              \E id \in (DOMAIN graphs') \ (DOMAIN graphs) :
                  /\ result' = Outcome("create_graph", "", id)
                  /\ graphs'[id] = Graph(id, g.nodes, g.start_node, g.edges)
                  /\ DOMAIN graphs' = (DOMAIN graphs) \cup {id}
                  /\ \A old \in DOMAIN graphs : graphs'[old] = graphs[old]]_vars

\* C10 witness: two graphs stored under different ids, the second with a rule
\* that lacks a branch and names a node with no tool
C10_Witness ==
    /\ DOMAIN graphs = {1, 2}
    /\ graphs[1].graph_id = 1 /\ graphs[2].graph_id = 2
    /\ graphs[1].edges[Str("split_text")] = EmptyDict
    /\ graphs[2].edges[Str("split_text")] =
          Without(Conditional("chunks", Some(Str("X")), Some(Str("X"))), "on_false")
    /\ result = Outcome("create_graph", "", 2)

\* a run_graph call of Spec on a graph id that the Graph Store does not hold
RejectedRun ==
    \E graph_id \in {1, 2}, s \in SpecStates :
        /\ graph_id \notin DOMAIN graphs
        /\ run_graph(graph_id, s, MaxRuns)

\* C11: run_graph on a graph id that is not in the Graph Store raises KeyError
\* (NotFound) and creates no run record: the Run Store, the calls under way and
\* the Graph Store are after the call what they were before it, and no run
\* record ever names a graph that is not stored.
C11_UnknownGraphCreatesNoRun ==
    /\ [][RejectedRun =>
             /\ result' = Outcome("run_graph", "KeyError", 0)
             /\ runs' = runs
             /\ frames' = frames
             /\ graphs' = graphs]_vars
    /\ [](\A id \in DOMAIN runs : runs[id].graph_id \in DOMAIN graphs)

\* C11 witness: a run_graph was rejected while one graph was stored, one run
\* of it was under way and a second run could still have been started
C11_Witness ==
    /\ result = Outcome("run_graph", "KeyError", 0)
    /\ DOMAIN graphs = {1}
    /\ DOMAIN runs = {1}
    /\ runs[1].status = "running"
    /\ At(1, "l139")

\* C12: a log entry holds its own copy of the state: the entry a statement
\* appends records the state as the merge left it, and no later statement (a
\* tool's writes into the state it was handed, the merge of its update, a
\* value replaced under a key that holds a list or a string) changes the node
\* or the state, nested values included, that an earlier entry recorded.
C12_SnapshotsAreIndependent ==
    [][\A id \in DOMAIN runs :
          /\ \A i \in 1..Len(runs[id].log) :
                /\ i <= Len(runs'[id].log)
                /\ runs'[id].log[i].node = runs[id].log[i].node
                /\ runs'[id].log[i].state = runs[id].log[i].state
          /\ Len(runs'[id].log) > Len(runs[id].log) =>
                /\ runs'[id].log[Len(runs'[id].log)].state = runs[id].state
                /\ runs'[id].state = runs[id].state]_vars

\* C12 witness: the example graph's run went on after its first entry: the
\* entry still shows the state with the chunks alone, as a list of two strings,
\* while the state has since taken the keys of the later tools, those that
\* refine_summary wrote into it among them
C12_Witness ==
    \E id \in DOMAIN runs :
        /\ Len(runs[id].log) >= 4
        /\ runs[id].log[1].node = Str("split_text")
        /\ DOMAIN runs[id].log[1].state = DOMAIN LongText \cup {"chunks"}
        /\ runs[id].log[1].state["chunks"].t = "list"
        /\ Len(runs[id].log[1].state["chunks"].s) = 2
        /\ "final_summary" \in DOMAIN runs[id].state
        /\ runs[id].log[1].state # runs[id].state

\* C13: each run owns its copy of state.  While a run_graph call is under way
\* the dict its caller passed as initial_state stays as it was passed, whatever
\* the statements of the run write into the run's state; and a statement
\* changes at most one run record, the one of its own call: registering a run
\* leaves every other record as it was, and a statement of one run leaves the
\* record and the call of every other run as they were, also when both runs
\* were started from equal initial states and their statements interleave.
C13_RunsOwnTheirState ==
    [][/\ \A id \in DOMAIN frames :
             /\ id \in DOMAIN frames' => frames'[id].initial_state = frames[id].initial_state
             /\ (frames[id].steps = 0 /\ frames[id].pc \in {"l129", "l131"}) =>
                   runs[id].state = frames[id].initial_state
       /\ \A id \in DOMAIN runs, other \in DOMAIN runs :
             (id # other /\ runs'[id] # runs[id]) =>
                 /\ runs'[other] = runs[other]
                 /\ other \in DOMAIN frames =>
                       other \in DOMAIN frames' /\ frames'[other] = frames[other]
       /\ \A id \in (DOMAIN runs') \ (DOMAIN runs) :
             \A other \in DOMAIN runs : runs'[other] = runs[other]]_vars

\* C13 witness: two runs of one graph, both started from the empty state and
\* both under way: the first has merged and logged its first update, the
\* caller's dict of each is still empty and the second run's state is still
\* empty too
C13_Witness ==
    /\ DOMAIN frames = {1, 2}
    /\ runs[1].graph_id = runs[2].graph_id
    /\ frames[1].initial_state = EmptyState /\ frames[2].initial_state = EmptyState
    /\ DOMAIN runs[1].state = RefineKeys /\ Len(runs[1].log) = 1
    /\ runs[2].state = EmptyState /\ runs[2].log = <<>>
    /\ At(2, "l131")

\* C14: a run record is in the Run Store, under its own run_id, before the
\* first statement of its run and is never removed: every call under way has
\* its record, a record once stored stays stored, and in every state get_run
\* of a stored id can return that record, running or ended; get_run of an id
\* that was never issued raises KeyError (NotFound); and get_run changes
\* neither store.
C14_RunVisibleFromAllocation ==
    /\ [](/\ DOMAIN frames \subseteq DOMAIN runs
          /\ \A id \in DOMAIN runs :
                /\ runs[id].run_id = id
                /\ ENABLED (get_run(id) /\ result' = Outcome("get_run", "", id)))
    /\ [][/\ DOMAIN runs \subseteq DOMAIN runs'
          /\ \A run_id \in 1..(MaxRuns + 1) :
                get_run(run_id) =>
                    /\ result' = IF run_id \in DOMAIN runs
                                 THEN Outcome("get_run", "", run_id)
                                 ELSE Outcome("get_run", "KeyError", 0)
                    /\ runs' = runs
                    /\ graphs' = graphs
                    /\ frames' = frames]_vars

\* C14 witness: get_run returned the record of a run that was still running,
\* before the first statement of its loop, while another id had not been
\* issued
C14_Witness ==
    /\ result = Outcome("get_run", "", 1)
    /\ DOMAIN runs = {1}
    /\ runs[1].status = "running"
    /\ runs[1].log = <<>>
    /\ At(1, "l129") /\ frames[1].steps = 0

\* a graph of one node, its start node, with no edge rule
IsSingleNode(g) == Len(g.nodes) = 1 /\ g.start_node = g.nodes[1] /\ g.edges = EmptyDict

\* C15: the run of a single-node graph (nodes = [X], start_node = X, no edge
\* rule) whose tool X is registered has, once run_graph has returned it,
\* exactly one log entry, for X and with the final state, status completed and
\* no current_node, unless the tool raised: then, and only then, the run is in
\* error with an empty log, on a state on which the tool does raise.
C15_SingleNodeRunsOnce ==
    \A id \in DOMAIN runs :
        LET run == runs[id]
            X == GraphOf(run).start_node
        IN  (/\ IsSingleNode(GraphOf(run))
             /\ X \in DOMAIN tool_registry
             /\ Returned(id)) =>
                IF CallTool(tool_registry[X], run.state).raised /\ run.log = <<>>
                THEN run.status = "error"
                ELSE /\ run.status = "completed"
                     /\ run.current_node = None
                     /\ run.log = <<NodeLogEntry(X, run.state)>>

\* C15 witness: the single-node graph of split_text ran on a text of three
\* words and completed with the one entry of split_text
C15_Witness ==
    \E id \in DOMAIN runs :
        /\ IsSingleNode(GraphOf(runs[id]))
        /\ Returned(id)
        /\ runs[id].status = "completed"
        /\ runs[id].current_node = None
        /\ Len(runs[id].log) = 1
        /\ runs[id].log[1].node = Str("split_text")
        /\ DOMAIN runs[id].state = DOMAIN LongText \cup {"chunks"}

\* the call of the run id is inside a pass of the loop, between the lookup of
\* the tool and the append to the log
InPass(id) == At(id, "l131") \/ At(id, "l134") \/ At(id, "l136") \/ At(id, "l139")

\* C16: every run_graph call on a stored graph ends: as long as each tool
\* invocation returns or raises, the call returns, the run then being
\* completed or in error and never running, cyclic graph or not; tools were
\* then invoked at most max_steps = 1000 times (a pass under way follows fewer
\* than max_steps logged ones, so that its invocation is within the cap, and
\* the log, one entry per invocation that returned, never has more than
\* max_steps entries).
C16_RunTerminatesWithinCap ==
    /\ [](\A id \in DOMAIN runs :
             /\ Len(runs[id].log) <= max_steps
             /\ InPass(id) =>
                   /\ frames[id].steps < max_steps
                   /\ Len(runs[id].log) = frames[id].steps
             /\ Returned(id) =>
                   /\ Terminal(runs[id])
                   /\ result = Outcome("run_graph", "", id)
             /\ runs[id].status = "running" => id \in DOMAIN frames)
    /\ (1 \in DOMAIN runs) ~> (Returned(1) /\ Terminal(runs[1]))

\* C16 witness: run_graph returned the record of a run around a self-loop that
\* the cap ended after max_steps invocations
C16_Witness ==
    /\ result = Outcome("run_graph", "", 1)
    /\ Returned(1)
    /\ runs[1].status = "completed"
    /\ Len(runs[1].log) = max_steps
    /\ runs[1].log[max_steps].node = Str("split_text")
    /\ ResolvedAt(runs[1], max_steps).next = Some(Str("split_text"))

\* the tools the application registers (main.py)
AppTools == {Str("split_text"), Str("generate_summaries"), Str("merge_summaries"), Str("refine_summary")}

\* C17 as stated: a tool's return value is its only channel.  While the tool
\* of a node, one of the application's four, is invoked on the run's state,
\* that state stays as it was: the state just before the merge is the state
\* just before the invocation.
C17_ToolsLeaveStateUnchanged ==
    [][\A id \in DOMAIN frames :
          ((At(id, "l131") \/ At(id, "l134")) /\ frames[id].current[1] \in AppTools) =>
              runs'[id].state = runs[id].state]_vars

\* C18: the log of a run traces a path of its graph: the first entry, if any,
\* is for the graph's start_node, and each further entry is for the node that
\* edge resolution gives for the rule of the entry before it on that entry's
\* snapshot, a result that was not raised, is set and is not "end".
C18_LogTracesPath ==
    \A id \in DOMAIN runs :
        LET run == runs[id]
        IN  /\ run.log # <<>> => run.log[1].node = GraphOf(run).start_node
            /\ \A i \in 1..(Len(run.log) - 1) :
                  LET res == ResolvedAt(run, i)
                  IN  /\ ~res.raised
                      /\ res.next # None
                      /\ res.next # Some(Str("end"))
                      /\ run.log[i + 1].node = res.next[1]

\* C18 witness: the example graph's log went down its three linear edges and
\* then once around the conditional edge of refine_summary, taken on a
\* snapshot in which the summary is not short enough
C18_Witness ==
    \E id \in DOMAIN runs :
        /\ Len(runs[id].log) = 5
        /\ runs[id].log[1].node = Str("split_text")
        /\ runs[id].log[2].node = Str("generate_summaries")
        /\ runs[id].log[3].node = Str("merge_summaries")
        /\ runs[id].log[4].node = Str("refine_summary")
        /\ runs[id].log[5].node = Str("refine_summary")
        /\ runs[id].log[4].state["is_summary_short_enough"] = VBool(FALSE)

\* the node names the edge rules of graph g name as successors
EdgeTargets(g) ==
    UNION {{cfg[k][1] : k \in {f \in (DOMAIN cfg) \cap {"next", "on_true", "on_false"} :
                                  cfg[f] # None}} :
           cfg \in {g.edges[n] : n \in DOMAIN g.edges}}

\* C19 as stated: a run only executes nodes declared in its graph: the node of
\* every log entry and every value of current_node is among the graph's nodes.
C19_OnlyDeclaredNodesRun ==
    \A id \in DOMAIN runs :
        LET run == runs[id]
        IN  /\ \A i \in 1..Len(run.log) : InList(run.log[i].node, GraphOf(run).nodes)
            /\ run.current_node # None => InList(run.current_node[1], GraphOf(run).nodes)

\* C19 amended: a run starts at a declared node and goes where the edge rules
\* send it: the graph's start_node is among its nodes and is the node of the
\* first log entry; the node of every later entry, and every value of
\* current_node, is the start_node or a successor that an edge rule of the
\* graph names, declared or not, since create_graph checks no edge target
\* against nodes; and every logged node has a registered tool.
C19_RunFollowsEdgesFromDeclaredStart ==
    \A id \in DOMAIN runs :
        LET run == runs[id]
            g == GraphOf(run)
            named == {g.start_node} \cup EdgeTargets(g)
        IN  /\ InList(g.start_node, g.nodes)
            /\ run.log # <<>> =>
                  run.log[1].node = g.start_node /\ InList(run.log[1].node, g.nodes)
            /\ \A i \in 1..Len(run.log) :
                  run.log[i].node \in named /\ run.log[i].node \in DOMAIN tool_registry
            /\ run.current_node # None => run.current_node[1] \in named

\* C19 witness: a run of a graph that declares split_text alone has executed
\* generate_summaries, the successor its edge names, and completed
C19_Witness ==
    \E id \in DOMAIN runs :
        /\ GraphOf(runs[id]).nodes = <<Str("split_text")>>
        /\ Returned(id)
        /\ runs[id].status = "completed"
        /\ Len(runs[id].log) = 2
        /\ runs[id].log[1].node = Str("split_text")
        /\ runs[id].log[2].node = Str("generate_summaries")
        /\ ~InList(Str("generate_summaries"), GraphOf(runs[id]).nodes)

\* this step raises in the call of the run id, which goes on at line 102
Raises(id) == ~At(id, "l103") /\ At(id, "l103")'

\* C20: when a step of a run raises, the update of the failing step is merged
\* and logged exactly when the failure arose in edge resolution.  If no tool
\* is registered for the node, or the tool raised, the log and the state are
\* what they were before the step's lookup and invocation: no entry for the
\* failing node, the log holding the steps before it alone, and none of its
\* update.  Otherwise the edge rule raised: the last log entry is for the
\* failing node with the post-merge state, which is the run's state, and the
\* rule of that node raises on it.  current_node is the failing node, and the
\* record that run_graph returns is in Error with the log, the state and the
\* current_node of that moment and the exception as its message.
C20_FailingStepLoggedIffEdgeFailed ==
    /\ [][\A id \in DOMAIN frames :
             Raises(id) =>
                 LET f == frames[id]
                     node == f.current[1]
                     before == runs[id]
                     after == runs'[id]
                     exc == frames'[id].exc
                 IN  /\ after.current_node = Some(node)
                     /\ IF node \notin DOMAIN tool_registry
                        THEN /\ f.pc = "l131"
                             /\ after.log = before.log /\ Len(after.log) = f.steps
                             /\ after.state = before.state
                             /\ exc = ToolRegistryGet(node).exc
                        ELSE IF f.pc = "l131"
                        THEN /\ CallTool(tool_registry[node], before.state).raised
                             /\ after.log = before.log /\ Len(after.log) = f.steps
                             /\ after.state = before.state
                             /\ exc = CallTool(tool_registry[node], before.state).exc
                        ELSE /\ f.pc = "l142"
                             /\ Len(after.log) = f.steps + 1
                             /\ after.log[Len(after.log)] = NodeLogEntry(node, after.state)
                             /\ ResolvedAt(after, Len(after.log)).raised
                             /\ exc = ResolvedAt(after, Len(after.log)).exc]_vars
    /\ [][\A id \in DOMAIN frames :
             Caught(id) =>
                 /\ runs'[id].log = runs[id].log
                 /\ runs'[id].state = runs[id].state
                 /\ runs'[id].current_node = runs[id].current_node
                 /\ Returns(id) =>
                       /\ runs'[id].status = "error"
                       /\ runs'[id].error_message = Some(frames[id].exc)]_vars

\* C20 witness: split_text, started on a text under a rule that has no
\* on_true, has ended in Error on its edge: its update is merged and logged
C20_Witness ==
    \E id \in DOMAIN runs :
        /\ Returned(id)
        /\ runs[id].status = "error"
        /\ runs[id].error_message = Some(Repr(Str("on_true")))
        /\ Len(runs[id].log) = 1
        /\ runs[id].log[1] = NodeLogEntry(Str("split_text"), runs[id].state)
        /\ DOMAIN runs[id].state = DOMAIN LongText \cup {"chunks"}
        /\ runs[id].current_node = Some(Str("split_text"))

====
